---- MODULE Spec2Model ----
(***************************************************************************)
(* Sentry backup core: the manifest store (backup/manifest.rs), the       *)
(* backup engine (backup/engine.rs), the scheduler (backup/scheduler.rs)   *)
(* and the schedule worker (lib.rs, state.rs) as a state machine.          *)
(*                                                                         *)
(* Option<T> is modelled as a sequence: <<>> is None, <<x>> is Some(x).    *)
(* Result<T, E> is a record [ok |-> BOOLEAN, val |-> T].                   *)
(* A file's content is a number c in Contents standing for a byte string.  *)
(***************************************************************************)
EXTENDS Integers, Sequences, FiniteSets, TLC

\* ---------------------------------------------------------------- bounds
MaxTime == 2            \* the clock Utc::now() takes the values 0..MaxTime
MaxManifests == 2       \* manifest ids (UUIDs) available: 1..MaxManifests
MaxSchedules == 2       \* schedule ids (UUIDs) available: 1..MaxSchedules
MaxContainer == 5       \* a container handed to the splitter has 0..MaxContainer bytes
MaxTasks == 3           \* tasks calling the Scheduler concurrently: 1..MaxTasks
MaxCommands == 2        \* commands in flight beside the schedule worker: 1..MaxCommands

None == <<>>
Some(x) == <<x>>
IsSome(o) == o # <<>>
Unwrap(o) == o[1]

Ids == 1..MaxManifests
Times == 0..MaxTime
SetIds == {"s1", "s2"}
\* The file contents in use, and the paths <<root, name>> at which a file
\* may exist in the source trees.
Contents == {1, 2}
Files == {<<"r1", "a">>, <<"r1", "b">>, <<"r2", "a">>}
CloudLocs == {"drive"}

Ok(v) == [ok |-> TRUE, val |-> v]
Err(e) == [ok |-> FALSE, val |-> e]

RECURSIVE SumSeq(_)
SumSeq(s) == IF s = <<>> THEN 0 ELSE Head(s) + SumSeq(Tail(s))

Range(s) == {s[i] : i \in DOMAIN s}

\* ------------------------------------------------------------- the state
VARIABLES
    fs,         \* source trees: fs[<<root, name>>] = 0 (no file) or its content
    bodies,     \* <data_dir>/manifests/<id>.json: Option<BackupManifest> per id
    index,      \* <data_dir>/manifests/index.json
    now,        \* the clock read by Utc::now()
    nextId,     \* the next unused UUID (Uuid::new_v4 never repeats)
    archives,   \* the archive files written so far
    events,     \* progress events of the latest execute_backup, in order
    result,     \* the latest step: the operation, its arguments, what it returned
    clock,      \* the instant read by Local::now() / Utc::now(), in hours
    tz,         \* the time zone of the machine (chrono::Local)
    schedules,  \* AppState.schedules, as held in memory and in app_state.json
    nextSchedId, \* the next unused schedule id (Uuid::new_v4 never repeats)
    due,        \* the schedule worker's list of due (schedule id, backup set id)
    scheduler,  \* Scheduler.schedules: schedule id -> Option<Schedule>
    disk,       \* the files of the archive directory: path -> bytes
    chunk_size, \* BackupEngine.chunk_size
    faults,     \* source trees: what fails when the file at a path is reached
    lock,       \* the RwLock of Scheduler.schedules: guards held, tasks awaiting
    tasks,      \* the tasks calling the Scheduler: the call each is in, and where
    mutexes,    \* the four managed tokio Mutexes: the holder of each, if any
    procs       \* the schedule worker and the commands in flight: code and position

schedVars == <<clock, tz, schedules, nextSchedId, due, scheduler>>
splitVars == <<disk, chunk_size>>
mutexVars == <<mutexes, procs>>
lockVars == <<lock, tasks, mutexVars>>
vars == <<fs, bodies, index, now, nextId, archives, events, result, schedVars, splitVars,
          faults, lockVars>>

\* ------------------------------------------------------- manifest store
\* A store is the pair of the body files and the index document.
Store(b, i) == [bodies |-> b, index |-> i]

\* index.json: absent, a readable document, or bytes that do not deserialize.
\* (ManifestIndex.last_updated is written and never read: it is left out.)
AbsentIndex == [state |-> "absent", manifests |-> <<>>]
OkIndex(ms) == [state |-> "ok", manifests |-> ms]
CorruptIndex == [state |-> "corrupt", manifests |-> <<>>]

EmptyStore == Store([i \in Ids |-> None], AbsentIndex)

\* load_manifest_by_id: the body when its file exists, None otherwise.
LoadManifestById(st, id) == Ok(st.bodies[id])

\* (mutant) a document that does not deserialize is read as an empty index.
LoadIndexLenient(st, t) ==
    IF st.index.state = "ok" THEN Ok([manifests |-> st.index.manifests])
    ELSE Ok([manifests |-> <<>>])

\* load_index: an empty index when the file is absent; a Manifest error when
\* the file exists and serde_json::from_reader fails (the `?` after map_err).
LoadIndex(st, t) ==
    CASE st.index.state = "absent" -> Ok([manifests |-> <<>>])
      [] st.index.state = "ok" -> Ok([manifests |-> st.index.manifests])
      [] OTHER -> Err("Manifest")

\* (mutant) the summary does not record the upload.
SummaryNeverUploaded(m) ==
    [id |-> m.id,
     backup_set_id |-> m.backup_set_id,
     created_at |-> m.created_at,
     file_count |-> Len(m.files),
     total_size |-> m.total_size,
     compressed_size |-> m.compressed_size,
     is_uploaded |-> FALSE]

\* ManifestSummary built from a manifest in update_index.
Summary(m) ==
    [id |-> m.id,
     backup_set_id |-> m.backup_set_id,
     created_at |-> m.created_at,
     file_count |-> Len(m.files),
     total_size |-> m.total_size,
     compressed_size |-> m.compressed_size,
     is_uploaded |-> IsSome(m.cloud_location)]

\* (mutant) the old entry of the id is kept.
RetainAll(ms, id) == ms

\* (mutant) the retain predicate is inverted.
RetainInverted(ms, id) == SelectSeq(ms, LAMBDA s : s.id = id)

\* index.manifests.retain(|m| m.id != id)
Retain(ms, id) == SelectSeq(ms, LAMBDA s : s.id # id)

\* update_index: load, drop the old entry of this id, push the fresh summary,
\* rewrite the document.
UpdateIndex(st, m, t) ==
    LET idx == LoadIndex(st, t) IN
    IF ~idx.ok THEN [store |-> st, ret |-> idx]
    ELSE [store |-> Store(st.bodies,
                          OkIndex(Append(Retain(idx.val.manifests, m.id), Summary(m)))),
          ret |-> Ok("unit")]

\* save_manifest: write the body file, then update the index.
SaveManifest(st, m, t) ==
    LET written == Store([st.bodies EXCEPT ![m.id] = Some(m)], st.index) IN
    UpdateIndex(written, m, t)

\* (mutant) the last summary of the set is taken, whatever its created_at.
LastPos(ms, set_id) ==
    LET cand == {i \in DOMAIN ms : ms[i].backup_set_id = set_id} IN
    IF cand = {} THEN 0 ELSE CHOOSE i \in cand : \A j \in cand : j <= i

\* Iterator::max_by_key over the summaries of one set: the position of the
\* last element with the greatest created_at, 0 when there is none.
LatestPos(ms, set_id) ==
    LET cand == {i \in DOMAIN ms : ms[i].backup_set_id = set_id} IN
    IF cand = {} THEN 0
    ELSE CHOOSE i \in cand :
            \A j \in cand : \/ ms[j].created_at < ms[i].created_at
                            \/ (ms[j].created_at = ms[i].created_at /\ j <= i)

\* (mutant) a summary whose body file is missing is an error.
LoadManifestStrict(st, set_id, t) ==
    LET idx == LoadIndex(st, t) IN
    IF ~idx.ok THEN idx
    ELSE LET p == LatestPos(idx.val.manifests, set_id) IN
         IF p = 0 THEN Ok(None)
         ELSE IF IsSome(st.bodies[idx.val.manifests[p].id])
              THEN Ok(st.bodies[idx.val.manifests[p].id])
              ELSE Err("Io")

\* load_manifest: the body of the latest summary of the set; None when the set
\* has no summary or the summary's body file does not exist.
LoadManifest(st, set_id, t) ==
    LET idx == LoadIndex(st, t) IN
    IF ~idx.ok THEN idx
    ELSE LET p == LatestPos(idx.val.manifests, set_id) IN
         IF p = 0 THEN Ok(None)
         ELSE Ok(st.bodies[idx.val.manifests[p].id])

\* (mutant) the body file is removed and the index is left as it is.
DeleteManifestBodyOnly(st, id, t) ==
    [store |-> Store([st.bodies EXCEPT ![id] = None], st.index), ret |-> Ok("unit")]

\* delete_manifest: remove the body file if present, then rewrite the index
\* without the entry.
DeleteManifest(st, id, t) ==
    LET removed == Store([st.bodies EXCEPT ![id] = None], st.index)
        idx == LoadIndex(removed, t)
    IN  IF ~idx.ok THEN [store |-> removed, ret |-> idx]
        ELSE [store |-> Store(removed.bodies, OkIndex(Retain(idx.val.manifests, id))),
              ret |-> Ok("unit")]

\* (mutant) a manifest expires at its retention_until, not after it.
ExpiredInclusive(m, t) == IsSome(m.retention_until) /\ Unwrap(m.retention_until) <= t

\* The retention test of cleanup_expired on one loaded body.
Expired(m, t) == IsSome(m.retention_until) /\ Unwrap(m.retention_until) < t

\* The loop of cleanup_expired over the summaries read at its start: `acc` is
\* the store and the ids deleted so far.
RECURSIVE CleanupLoop(_, _, _)
CleanupLoop(ms, acc, t) ==
    IF ms = <<>> THEN [store |-> acc.store, ret |-> Ok(acc.deleted)]
    ELSE LET body == LoadManifestById(acc.store, Head(ms).id).val IN
         IF IsSome(body) /\ Expired(Unwrap(body), t)
         THEN LET d == DeleteManifest(acc.store, Head(ms).id, t) IN
              IF ~d.ret.ok THEN d
              ELSE CleanupLoop(Tail(ms),
                               [store |-> d.store,
                                deleted |-> Append(acc.deleted, Head(ms).id)], t)
         ELSE CleanupLoop(Tail(ms), acc, t)

\* cleanup_expired: delete every indexed manifest whose body has a
\* retention_until before now; return the deleted ids.
CleanupExpired(st, t) ==
    LET idx == LoadIndex(st, t) IN
    IF ~idx.ok THEN [store |-> st, ret |-> idx]
    ELSE CleanupLoop(idx.val.manifests, [store |-> st, deleted |-> <<>>], t)

\* (mutant) the location is written to the body file and the index is left
\* as it is.
UpdateCloudLocationBodyOnly(st, id, loc, t) ==
    LET body == LoadManifestById(st, id).val IN
    IF IsSome(body)
    THEN [store |-> Store([st.bodies EXCEPT
                              ![id] = Some([Unwrap(body) EXCEPT !.cloud_location = Some(loc)])],
                          st.index),
          ret |-> Ok("unit")]
    ELSE [store |-> st, ret |-> Ok("unit")]

\* update_cloud_location: attach the location to the body and save it again;
\* Ok and nothing written when the id has no body.
UpdateCloudLocation(st, id, loc, t) ==
    LET body == LoadManifestById(st, id).val IN
    IF IsSome(body)
    THEN SaveManifest(st, [Unwrap(body) EXCEPT !.cloud_location = Some(loc)], t)
    ELSE [store |-> st, ret |-> Ok("unit")]

\* -------------------------------------------------------- backup engine
\* The configured backup sets (BackupSet: id, sources, exclude_patterns,
\* retention_days, local_destination, cloud_upload). "s1" has two source roots.
BackupSets ==
    [s1 |-> [id |-> "s1", sources |-> <<"r1", "r2">>, exclude_patterns |-> <<>>,
             retention_days |-> Some(1), local_destination |-> None,
             cloud_upload |-> FALSE],
     s2 |-> [id |-> "s2", sources |-> <<"r1">>, exclude_patterns |-> <<"b">>,
             retention_days |-> None, local_destination |-> Some("dest"),
             cloud_upload |-> FALSE]]

\* The characters of the path components and patterns in use.
Chars ==
    [r1 |-> <<"r", "1">>, r2 |-> <<"r", "2">>, a |-> <<"a">>, b |-> <<"b">>]
        @@ ("1" :> <<"1">>) @@ ("1/a" :> <<"1", "/", "a">>)

\* str::contains: `pat` occurs in `s` as a contiguous run of characters.
Contains(s, pat) ==
    \E i \in 0..(Len(s) - Len(pat)) :
        \A k \in 1..Len(pat) : s[i + k] = pat[k]

\* The exclusion test of scan_directory on one file: a pattern occurs in the
\* full path or in the bare file name.
ShouldExclude(root, name, patterns) ==
    \E i \in DOMAIN patterns :
        \/ Contains(Chars[root] \o <<"/">> \o Chars[name], Chars[patterns[i]])
        \/ Contains(Chars[name], Chars[patterns[i]])

\* fs::metadata(..).len() and calculate_hash (SHA-256, taken as collision
\* free: the digest of content c is the tagged value <<"sha256", c>>).
FileLen(c) == c
CalculateHash(c) == <<"sha256", c>>

\* A file of a source tree: whether it exists, and its content.
Exists(tree, path) == path \in DOMAIN tree /\ tree[path] # 0
ReadFile(tree, path) == tree[path]

\* The order in which WalkDir yields the files of a root.
WalkOrder == <<"a", "b">>

\* What may fail when the scan reaches the file at a path: nothing; the walk
\* itself (WalkDir yields an error for the entry, as below a directory that
\* cannot be read); fs::metadata; or File::open / read in calculate_hash.
FaultKinds == {"none", "walk", "metadata", "hash"}
NoFaults == [f \in Files |-> "none"]

\* .filter_map(|e| e.ok()): the entries the loop of scan_directory sees.
WalkYields(tree, flt, path) == Exists(tree, path) /\ flt[path] # "walk"

\* scan_directory: one FileEntry per file of the root that the walk yields
\* and that is not excluded, in walk order, relative_path taken against the
\* root; an Io error as soon as the metadata or the hash of such a file
\* cannot be read.
RECURSIVE ScanFrom(_, _, _, _, _)
ScanFrom(tree, flt, root, patterns, order) ==
    IF order = <<>> THEN Ok(<<>>)
    ELSE LET name == Head(order)
             rest == ScanFrom(tree, flt, root, patterns, Tail(order))
         IN  IF ~WalkYields(tree, flt, <<root, name>>)
                \/ ShouldExclude(root, name, patterns)
             THEN rest
             ELSE IF flt[<<root, name>>] # "none" THEN Err("Io")
             ELSE IF ~rest.ok THEN rest
             ELSE Ok(<<[path |-> <<root, name>>,
                        relative_path |-> name,
                        size |-> FileLen(ReadFile(tree, <<root, name>>)),
                        hash |-> CalculateHash(ReadFile(tree, <<root, name>>)),
                        backed_up_at |-> None]>> \o rest.val)

ScanDirectory(tree, flt, root, patterns) == ScanFrom(tree, flt, root, patterns, WalkOrder)

\* The scan loop of execute_backup over the sources of the set: the first
\* failing scan ends it.
RECURSIVE ScanSources(_, _, _, _)
ScanSources(tree, flt, sources, patterns) ==
    IF sources = <<>> THEN Ok(<<>>)
    ELSE LET files == ScanDirectory(tree, flt, Head(sources), patterns) IN
         IF ~files.ok THEN files
         ELSE LET rest == ScanSources(tree, flt, Tail(sources), patterns) IN
              IF ~rest.ok THEN rest ELSE Ok(files.val \o rest.val)

\* HashMap<PathBuf, String> collected from the manifest's files: a later
\* entry of the same relative_path replaces an earlier one.
BackedUpHash(files, rel) ==
    LET hits == {i \in DOMAIN files : files[i].relative_path = rel} IN
    IF hits = {} THEN None
    ELSE Some(files[CHOOSE i \in hits : \A j \in hits : j <= i].hash)

\* (mutant) the hash is not compared: only new paths count as changed.
IsChangedPathOnly(prev_files, file) ==
    ~IsSome(BackedUpHash(prev_files, file.relative_path))

\* The filter of get_changed_files on one scanned file.
IsChanged(prev_files, file) ==
    LET h == BackedUpHash(prev_files, file.relative_path) IN
    IF IsSome(h) THEN Unwrap(h) # file.hash ELSE TRUE

\* (mutant) the manifest is not consulted: every scanned file is returned.
GetChangedFilesAll(st, set, current_files, t) == Ok(current_files)

\* get_changed_files: the scanned files that are new or whose hash differs
\* from the latest manifest of the set, in scan order.
GetChangedFiles(st, set, current_files, t) ==
    LET m == LoadManifest(st, set.id, t) IN
    IF ~m.ok THEN m
    ELSE LET prev == IF IsSome(m.val) THEN Unwrap(m.val).files ELSE <<>> IN
         Ok(SelectSeq(current_files, LAMBDA f : IsChanged(prev, f)))

\* BackupProgress.
Progress(status, tf, pf, tb, pb, cur) ==
    [status |-> status, total_files |-> tf, processed_files |-> pf,
     total_bytes |-> tb, processed_bytes |-> pb, current_file |-> cur]

\* OsStr::to_string_lossy: a name that is not valid UTF-8 has each invalid
\* sequence replaced by U+FFFD; a valid name is returned as it is.
LossyNames == ("n<FF>" :> "n<U+FFFD>") @@ ("n<FE>" :> "n<U+FFFD>")
ToStringLossy(name) == IF name \in DOMAIN LossyNames THEN LossyNames[name] ELSE name

\* (mutant) the archive takes a second entry of the same name.
NoDuplicate(files) == 0

\* ZipWriter::start_file of the zip crate that provides SimpleFileOptions
\* refuses a name the archive already holds (InvalidArchive, "Duplicate
\* filename"): the position of the first file whose relative_path repeats an
\* earlier one, 0 when the names are pairwise distinct.
FirstDuplicate(files) ==
    LET dups == {k \in DOMAIN files :
                    \E j \in 1..(k - 1) :
                        ToStringLossy(files[j].relative_path)
                            = ToStringLossy(files[k].relative_path)}
    IN  IF dups = {} THEN 0 ELSE CHOOSE k \in dups : \A j \in dups : k <= j

\* The size of the finished container: one header per entry and its bytes
\* (compression is not modelled).
ArchiveLen(entries) == Len(entries) + SumSeq([i \in DOMAIN entries |-> FileLen(entries[i].content)])

\* create_archive: the container <set id>_<uuid>.zip in the temp directory;
\* per file a Compressing event, then the entry under its relative path with
\* the bytes read from file_entry.path (`source` notes which file they were
\* read from); after finish() the move to local_destination when one is set.
CreateArchive(set, files, tree, uuid) ==
    LET n == Len(files)
        dup == FirstDuplicate(files)
        written == IF dup = 0 THEN n ELSE dup - 1
        emitted == IF dup = 0 THEN n ELSE dup
        total_bytes == SumSeq([i \in 1..n |-> files[i].size])
        read(i) == FileLen(ReadFile(tree, files[i].path))
        evs == [k \in 1..emitted |->
                  Progress("Compressing", n, k - 1, total_bytes,
                           SumSeq([i \in 1..(k - 1) |-> read(i)]),
                           ToStringLossy(files[k].relative_path))]
        entries == [k \in 1..written |->
                      [name |-> ToStringLossy(files[k].relative_path),
                       source |-> files[k].path,
                       content |-> ReadFile(tree, files[k].path)]]
        dest == IF dup = 0 /\ IsSome(set.local_destination)
                THEN Unwrap(set.local_destination) ELSE "temp"
        arch == [backup_set_id |-> set.id, backup_id |-> uuid, entries |-> entries,
                 finished |-> dup = 0, location |-> dest]
    IN  [archive |-> arch, events |-> evs,
         ret |-> IF dup = 0 THEN Ok(<<dest, set.id, uuid>>) ELSE Err("Zip")]

\* BackupResult.
BackupResult(id, set, t, files, total_bytes, compressed, path) ==
    [id |-> id, backup_set_id |-> set.id, started_at |-> t, completed_at |-> t,
     total_files |-> Len(files), total_bytes |-> total_bytes,
     compressed_bytes |-> compressed, files_backed_up |-> files,
     archive_path |-> path]

\* (mutant) an empty file list is reported as a failure.
NothingToBackUpFails(st, set, t) ==
    [store |-> st, archive |-> None,
     events |-> <<Progress("Scanning", 0, 0, 0, 0, "Scanning files...")>>,
     ret |-> Err("Io")]

\* The early return of execute_backup when files_to_backup is empty: a
\* Completed event and Ok with zero counts, no archive, the store untouched.
\* The result's id is a fresh UUID under which nothing is stored (0 here).
NothingToBackUp(st, set, t) ==
    [store |-> st, archive |-> None,
     events |-> <<Progress("Scanning", 0, 0, 0, 0, "Scanning files..."),
                  Progress("Completed", 0, 0, 0, 0,
                           "No changes detected - already up to date")>>,
     ret |-> Ok(BackupResult(0, set, t, <<>>, 0, 0, <<>>))]

\* execute_backup: Scanning event, scan of every source, the diff when
\* incremental, the early Ok with zero counts when nothing is to be backed up,
\* else the archive, the manifest of the backed-up files and its save, and
\* the Completed event. `uuid` names the archive and the manifest of the run.
\* The outcome: the store, the archive written (if any), the events, the
\* returned Result and the steps of the pipeline the run has called, in order.
\* `tree` is the source trees as the scan finds them and `later` as
\* create_archive finds them when it opens the files.
ExecuteBackupDuring(st, tree, later, flt, set, incremental, uuid, t) ==
    LET scanning == Progress("Scanning", 0, 0, 0, 0, "Scanning files...")
        scanned == ScanSources(tree, flt, set.sources, set.exclude_patterns)
        all_files == scanned.val
        diff == IF incremental THEN GetChangedFiles(st, set, all_files, t)
                ELSE Ok(all_files)
        selected == <<"scan_directory">>
                       \o (IF incremental THEN <<"get_changed_files">> ELSE <<>>)
    IN
    IF ~scanned.ok
    THEN [store |-> st, archive |-> None, events |-> <<scanning>>, ret |-> scanned,
          steps |-> <<"scan_directory">>]
    ELSE
    IF ~diff.ok
    THEN [store |-> st, archive |-> None, events |-> <<scanning>>, ret |-> diff,
          steps |-> selected]
    ELSE
    LET files_to_backup == diff.val IN
    IF files_to_backup = <<>>
    THEN [steps |-> selected] @@ NothingToBackUp(st, set, t)
    ELSE
    LET made == CreateArchive(set, files_to_backup, later, uuid) IN
    IF ~made.ret.ok
    THEN [store |-> st, archive |-> Some(made.archive),
          events |-> <<scanning>> \o made.events, ret |-> made.ret,
          steps |-> selected \o <<"create_archive">>]
    ELSE
    LET archive_size == ArchiveLen(made.archive.entries)
        total == SumSeq([i \in DOMAIN files_to_backup |-> files_to_backup[i].size])
        files_with_backup_time ==
            [i \in DOMAIN files_to_backup |->
                [files_to_backup[i] EXCEPT !.backed_up_at = Some(t)]]
        manifest ==
            [id |-> uuid, backup_set_id |-> set.id, created_at |-> t,
             files |-> files_with_backup_time, total_size |-> total,
             compressed_size |-> archive_size, cloud_location |-> None,
             retention_until |->
                IF IsSome(set.retention_days)
                THEN Some(t + Unwrap(set.retention_days)) ELSE None]
        saved == SaveManifest(st, manifest, t)
        called == selected \o <<"create_archive", "save_manifest">>
    IN
    IF ~saved.ret.ok
    THEN [store |-> saved.store, archive |-> Some(made.archive),
          events |-> <<scanning>> \o made.events, ret |-> saved.ret,
          steps |-> called]
    ELSE [store |-> saved.store, archive |-> Some(made.archive),
          events |-> <<scanning>> \o made.events
                       \o <<Progress("Completed", Len(files_to_backup),
                                     Len(files_to_backup), total, total,
                                     "Backup complete")>>,
          ret |-> Ok(BackupResult(uuid, set, t, files_with_backup_time, total,
                                  archive_size, made.ret.val)),
          steps |-> called]

\* execute_backup while nothing else writes to the source trees.
ExecuteBackup(st, tree, flt, set, incremental, uuid, t) ==
    ExecuteBackupDuring(st, tree, tree, flt, set, incremental, uuid, t)

\* --------------------------------------------------------- chunk splitter
\* A file of the archive directories: its directory, its name up to the last
\* dot and its extension, a sequence of characters.  The files on disk are a
\* function from such paths to their bytes.
Path(dir, stem, ext) == [dir |-> dir, stem |-> stem, ext |-> ext]
ByteValues == {0, 1}
ChunkSizes == {1, 2, 3}     \* the values chunk_size takes (10 MiB in BackupEngine::new)
EmptyDisk == <<>>

\* Path::with_extension: the extension is replaced.
WithExtension(path, ext) == [path EXCEPT !.ext = ext]

\* format!("{:03}", n): the decimal digits of n, padded with zeros to three.
DigitChars == <<"0", "1", "2", "3", "4", "5", "6", "7", "8", "9">>
RECURSIVE Digits(_)
Digits(n) ==
    IF n < 10 THEN <<DigitChars[n + 1]>>
    ELSE Digits(n \div 10) \o <<DigitChars[(n % 10) + 1]>>
Format03(n) == [i \in 1..(3 - Len(Digits(n))) |-> "0"] \o Digits(n)

\* (mutant) the parts are numbered from 001.
ChunkPathFromOne(archive_path, chunk_index) ==
    WithExtension(archive_path, <<"p", "a", "r", "t">> \o Format03(chunk_index + 1))

\* archive_path.with_extension(format!("part{:03}", chunk_index))
ChunkPath(archive_path, chunk_index) ==
    WithExtension(archive_path, <<"p", "a", "r", "t">> \o Format03(chunk_index))

\* (mutant) a container of exactly chunk_size bytes is split as well.
WithinOneChunkStrict(total_size, size) == total_size < size

\* total_size <= self.chunk_size
WithinOneChunk(total_size, size) == total_size <= size

\* file.read(&mut buffer) on the container, a regular file, at offset pos
\* with a buffer of n bytes: the next n bytes, fewer at the end of the file.
ReadBlock(bytes, pos, n) ==
    SubSeq(bytes, pos + 1, IF pos + n < Len(bytes) THEN pos + n ELSE Len(bytes))

\* The loop of split_into_chunks: one part file per block read, until a read
\* returns nothing.  `acc` holds the disk and the paths pushed so far.
RECURSIVE SplitLoop(_, _, _, _, _, _)
SplitLoop(bytes, pos, size, archive_path, chunk_index, acc) ==
    LET block == ReadBlock(bytes, pos, size) IN
    IF block = <<>> THEN acc
    ELSE LET chunk_path == ChunkPath(archive_path, chunk_index) IN
         SplitLoop(bytes, pos + Len(block), size, archive_path, chunk_index + 1,
                   [disk |-> (chunk_path :> block) @@ acc.disk,
                    chunks |-> Append(acc.chunks, chunk_path)])

\* split_into_chunks: an Io error when the container cannot be opened, the
\* container itself when it is within one chunk, else the part files.
SplitIntoChunks(d, size, archive_path) ==
    IF archive_path \notin DOMAIN d THEN [disk |-> d, ret |-> Err("Io")]
    ELSE IF WithinOneChunk(Len(d[archive_path]), size)
         THEN [disk |-> d, ret |-> Ok(<<archive_path>>)]
         ELSE LET out == SplitLoop(d[archive_path], 0, size, archive_path, 0,
                                   [disk |-> d, chunks |-> <<>>])
              IN  [disk |-> out.disk, ret |-> Ok(out.chunks)]

\* cleanup_temp: every file of the temp directory is removed.
CleanupTemp(d) == [p \in {q \in DOMAIN d : q.dir # "temp"} |-> d[p]]

\* No container has been written and chunk_size is as BackupEngine::new
\* sets it.
NoContainer ==
    /\ disk = EmptyDisk
    /\ chunk_size \in {n \in ChunkSizes : \A m \in ChunkSizes : m <= n}

\* ------------------------------------------------------------- scheduler
\* Instants (DateTime<Utc>) and local wall-clock readings (NaiveDateTime)
\* are whole hours counted from 2025-01-01 00:00; a date (NaiveDate) is a
\* number of days counted from 2025-01-01.  The calendar covers the years
\* 2025 and 2026, neither of them a leap year.
MonthLen == <<31, 28, 31, 30, 31, 30, 31, 31, 30, 31, 30, 31>>
DaysBefore == <<0, 31, 59, 90, 120, 151, 181, 212, 243, 273, 304, 334>>

Year(date) == 2025 + (date \div 365)
Month(date) ==
    CHOOSE m \in 1..12 :
        /\ DaysBefore[m] <= date % 365
        /\ date % 365 < DaysBefore[m] + MonthLen[m]
Day(date) == (date % 365) - DaysBefore[Month(date)] + 1

\* NaiveDate::from_ymd_opt: None when the month has no such day.
Ymd(y, m, d) ==
    IF m \in 1..12 /\ d \in 1..MonthLen[m]
    THEN Some((y - 2025) * 365 + DaysBefore[m] + d - 1)
    ELSE None

\* weekday().num_days_from_sunday(): 2025-01-01 is a Wednesday.
Weekday(date) == (date + 3) % 7

DateOf(naive) == naive \div 24          \* date_naive()
HourOf(naive) == naive % 24
AndTime(date, time) == date * 24 + time \* NaiveDate::and_time

\* A local wall-clock reading given by its civil date and hour.
At(y, m, d, h) == AndTime(Unwrap(Ymd(y, m, d)), h)

\* The zones chrono::Local may stand for: the UTC offset in force from each
\* transition instant on, in hours.
Zones == {"UTC", "America/New_York", "Europe/Berlin"}
BaseOffset(zone) ==
    CASE zone = "America/New_York" -> 0 - 5
      [] zone = "Europe/Berlin" -> 1
      [] OTHER -> 0
Transitions(zone) ==
    CASE zone = "America/New_York" ->
            <<[at |-> At(2025, 3, 9, 7), offset |-> 0 - 4],
              [at |-> At(2025, 11, 2, 6), offset |-> 0 - 5],
              [at |-> At(2026, 3, 8, 7), offset |-> 0 - 4],
              [at |-> At(2026, 11, 1, 6), offset |-> 0 - 5]>>
      [] zone = "Europe/Berlin" ->
            <<[at |-> At(2025, 3, 30, 1), offset |-> 2],
              [at |-> At(2025, 10, 26, 1), offset |-> 1],
              [at |-> At(2026, 3, 29, 1), offset |-> 2],
              [at |-> At(2026, 10, 25, 1), offset |-> 1]>>
      [] OTHER -> <<>>
Offset(zone, u) ==
    LET tr == Transitions(zone)
        past == {i \in DOMAIN tr : tr[i].at <= u}
    IN  IF past = {} THEN BaseOffset(zone)
        ELSE tr[CHOOSE i \in past : \A j \in past : j <= i].offset
ZoneOffsets(zone) ==
    {BaseOffset(zone)} \cup {Transitions(zone)[i].offset : i \in DOMAIN Transitions(zone)}

\* now.naive_local()
NaiveLocal(zone, u) == u + Offset(zone, u)

\* Local.from_local_datetime(naive): the instants that read as this
\* wall-clock time: one (Single), two (Ambiguous) or none (None).
FromLocalDatetime(zone, naive) ==
    {u \in {naive - o : o \in ZoneOffsets(zone)} : NaiveLocal(zone, u) = naive}

SetMax(S) == CHOOSE x \in S : \A y \in S : y <= x
SetMin(S) == CHOOSE x \in S : \A y \in S : x <= y

\* DateTime<Local>::with_year / with_month (chrono's map_local): the naive
\* date with the field replaced, kept only when that wall-clock time exists
\* as exactly one instant.
MapLocal(zone, naive_opt) ==
    IF IsSome(naive_opt) /\ Cardinality(FromLocalDatetime(zone, Unwrap(naive_opt))) = 1
    THEN naive_opt ELSE None
WithYear(zone, naive, y) ==
    LET date == Ymd(y, Month(DateOf(naive)), Day(DateOf(naive))) IN
    MapLocal(zone, IF IsSome(date) THEN Some(AndTime(Unwrap(date), HourOf(naive)))
                   ELSE None)
WithMonth(zone, naive, m) ==
    LET date == Ymd(Year(DateOf(naive)), m, Day(DateOf(naive))) IN
    MapLocal(zone, IF IsSome(date) THEN Some(AndTime(Unwrap(date), HourOf(naive)))
                   ELSE None)
\* NaiveDate::with_day
WithDay(date, d) == Ymd(Year(date), Month(date), d)

\* The time-of-day strings in use, and NaiveTime::parse_from_str(t, "%H:%M")
\* on them: the hour, or None for a string that does not parse.
TimeStrings == {"01:00", "02:00", "2am"}
ParseTime(t) ==
    CASE t = "01:00" -> Some(1)
      [] t = "02:00" -> Some(2)
      [] OTHER -> None
\* self.time parsed, 02:00 when absent or unparseable.
TimeOfDay(time) ==
    IF IsSome(time) /\ IsSome(ParseTime(Unwrap(time)))
    THEN Unwrap(ParseTime(Unwrap(time))) ELSE 2

ScheduleTypes == {"Daily", "Weekly", "Monthly", "Custom", "WeatherTriggered", "Manual"}

\* Schedule (name, weather_trigger_enabled, weather_alert_types, created_at
\* and updated_at are never read by the scheduling code: left out).
Schedule(id, set_id, type, enabled, time, days, dom, last_run, next_run) ==
    [id |-> id, backup_set_id |-> set_id, schedule_type |-> type,
     enabled |-> enabled, time |-> time, days_of_week |-> days,
     day_of_month |-> dom, weather_triggers |-> <<>>,
     last_run |-> last_run, next_run |-> next_run]

\* Schedule::new
NewSchedule(id, set_id, type) ==
    Schedule(id, set_id, type, TRUE, Some("02:00"), <<>>, None, None, None)

\* The Daily arm: today's occurrence when still ahead, else tomorrow's.
DailyNext(now_local, time) ==
    LET today_run == AndTime(DateOf(now_local), time) IN
    IF today_run > now_local THEN today_run ELSE today_run + 24

\* (mutant) the first configured weekday is taken even when its time has passed.
WeeklyNextNotAfter(days, now_local, time) ==
    LET today == DateOf(now_local)
        hit == {i \in 0..7 : Weekday(today + i) \in Range(days)}
    IN  IF hit = {} THEN AndTime(today, time)
        ELSE AndTime(today + SetMin(hit), time)

\* The Weekly arm (days non-empty): the first of the 8 days from today on a
\* configured weekday whose occurrence is after now; today's occurrence
\* when the loop finds none.
WeeklyNext(days, now_local, time) ==
    LET today == DateOf(now_local)
        hit == {i \in 0..7 : /\ Weekday(today + i) \in Range(days)
                             /\ AndTime(today + i, time) > now_local}
    IN  IF hit = {} THEN AndTime(today, time)
        ELSE AndTime(today + SetMin(hit), time)

\* The Monthly arm.
MonthlyNext(zone, dom, now_local, time) ==
    LET today == DateOf(now_local)
        day == IF IsSome(dom) THEN Unwrap(dom) ELSE 1
        this_month == WithDay(today, day)
    IN  IF IsSome(this_month) /\ AndTime(Unwrap(this_month), time) > now_local
        THEN AndTime(Unwrap(this_month), time)
        ELSE LET in_next_year == WithYear(zone, now_local, Year(today) + 1)
                 next_month ==
                     IF Month(today) = 12
                     THEN IF IsSome(in_next_year)
                          THEN WithMonth(zone, Unwrap(in_next_year), 1) ELSE None
                     ELSE WithMonth(zone, now_local, Month(today) + 1)
                 date == IF IsSome(next_month)
                         THEN WithDay(DateOf(Unwrap(next_month)), day) ELSE None
             IN  IF IsSome(date) THEN AndTime(Unwrap(date), time) ELSE now_local

\* (mutant) of two instants with the same reading the earlier is taken.
ToInstantEarlier(zone, next_naive) ==
    LET r == FromLocalDatetime(zone, next_naive) IN
    IF r = {} THEN next_naive ELSE SetMin(r)

\* The conversion of the wall-clock result to an instant: the one instant,
\* the later of two, or for a time that does not exist the instant with the
\* same reading in UTC.
ToInstant(zone, next_naive) ==
    LET r == FromLocalDatetime(zone, next_naive) IN
    IF r = {} THEN next_naive ELSE SetMax(r)

\* Schedule::calculate_next_run at instant u in the zone.
CalculateNextRun(s, u, zone) ==
    LET now_local == NaiveLocal(zone, u)
        time == TimeOfDay(s.time)
    IN  CASE s.schedule_type = "Daily" ->
                [s EXCEPT !.next_run = Some(ToInstant(zone, DailyNext(now_local, time)))]
          [] s.schedule_type = "Weekly" ->
                IF s.days_of_week = <<>> THEN s
                ELSE [s EXCEPT !.next_run =
                        Some(ToInstant(zone, WeeklyNext(s.days_of_week, now_local, time)))]
          [] s.schedule_type = "Monthly" ->
                [s EXCEPT !.next_run =
                    Some(ToInstant(zone, MonthlyNext(zone, s.day_of_month, now_local, time)))]
          [] OTHER -> s

\* (mutant) a disabled schedule is due as well.
ShouldRunNowIgnoringEnabled(s, u) == IsSome(s.next_run) /\ u >= Unwrap(s.next_run)

\* Schedule::should_run_now at instant u.
ShouldRunNow(s, u) ==
    IF ~s.enabled THEN FALSE
    ELSE IF IsSome(s.next_run) THEN u >= Unwrap(s.next_run) ELSE FALSE

\* Scheduler: the map from schedule id to Schedule.
SchedIds == 1..MaxSchedules
EmptyScheduler == [i \in SchedIds |-> None]
Present(map) == {i \in SchedIds : IsSome(map[i])}

\* The orders in which HashMap::values() may visit the entries.
IterationOrders(map) ==
    {o \in [1..Cardinality(Present(map)) -> Present(map)] :
        \A i, j \in DOMAIN o : i # j => o[i] # o[j]}

\* Scheduler::add_schedule and Scheduler::update_schedule: insert under the id.
SchedulerInsert(map, s) == [map EXCEPT ![s.id] = Some(s)]
\* Scheduler::remove_schedule
SchedulerRemove(map, id) == [map EXCEPT ![id] = None]

\* Scheduler::get_pending_backups, the entries visited in the given order.
GetPendingBackups(map, order, u) ==
    LET pending == SelectSeq(order, LAMBDA id : ShouldRunNow(Unwrap(map[id]), u)) IN
    [i \in DOMAIN pending |-> Unwrap(map[pending[i]]).backup_set_id]

\* Scheduler::mark_completed
MarkCompleted(map, id, u, zone) ==
    IF IsSome(map[id])
    THEN [map EXCEPT ![id] =
            Some(CalculateNextRun([Unwrap(map[id]) EXCEPT !.last_run = Some(u)], u, zone))]
    ELSE map

\* WeatherAlertType (three of its eight variants) and WeatherTrigger.
WeatherAlertTypes == {"Tornado", "FlashFlood", "WinterStorm"}
WeatherTrigger(alert_type, enabled) == [alert_type |-> alert_type, enabled |-> enabled]

\* (mutant) the loop over the triggers goes on after a match.
TriggerPushesNoBreak(triggers, alerts, set_id) ==
    LET hits == SelectSeq(triggers, LAMBDA t : t.enabled /\ t.alert_type \in Range(alerts))
    IN  [i \in DOMAIN hits |-> set_id]

\* The inner loop of check_weather_triggers over one schedule's triggers:
\* what it pushes, leaving the loop at the first enabled trigger whose
\* alert_type is among the alerts.
RECURSIVE TriggerPushes(_, _, _)
TriggerPushes(triggers, alerts, set_id) ==
    IF triggers = <<>> THEN <<>>
    ELSE IF Head(triggers).enabled /\ Head(triggers).alert_type \in Range(alerts)
         THEN <<set_id>>
         ELSE TriggerPushes(Tail(triggers), alerts, set_id)

\* Scheduler::check_weather_triggers, the entries visited in the given
\* order: disabled schedules are skipped.
RECURSIVE CheckWeatherTriggers(_, _, _)
CheckWeatherTriggers(map, order, alerts) ==
    IF order = <<>> THEN <<>>
    ELSE LET schedule == Unwrap(map[Head(order)])
             rest == CheckWeatherTriggers(map, Tail(order), alerts)
         IN  IF ~schedule.enabled THEN rest
             ELSE TriggerPushes(schedule.weather_triggers, alerts,
                                schedule.backup_set_id) \o rest

\* Scheduler.schedules is an Arc<RwLock<HashMap>> (tokio::sync::RwLock): one
\* write guard or any number of read guards are held at a time, and the tasks
\* awaiting the lock are served first in, first out.
Tasks == 1..MaxTasks
Unlocked == [writer |-> None, readers |-> {}, queue |-> <<>>]

\* RwLock::read is granted while no write guard is held.
MayReadAlways(l) == TRUE
MayRead(l) == ~IsSome(l.writer)
\* RwLock::write is granted while no guard at all is held.
MayWrite(l) == ~IsSome(l.writer) /\ l.readers = {}

\* The methods that take schedules.write() and those that take schedules.read().
WriteOps == {"add_schedule", "update_schedule", "remove_schedule", "mark_completed"}
ReadOps == {"get_schedule", "get_pending_backups", "check_weather_triggers"}

\* A task: the call it is in (op and arguments), where it is in the call, the
\* map as it was when a write guard was granted, and the value to return.
IdleTask ==
    [pc |-> "idle", op |-> "none", id |-> 0, schedule |-> None, alerts |-> <<>>,
     before |-> None, ret |-> <<>>]
\* The state the app manages (lib.rs, setup): the state manager, the backup
\* engine, the drive client and the weather service, each in an
\* Arc<tokio::sync::Mutex>. A mutex has one holder or none.
Mutexes == {"app_state", "backup_engine", "drive_client", "weather_service"}
Released == [m \in Mutexes |-> None]

\* Mutex::lock().await completes while the mutex has no holder.
MayLockAlways(mx, m) == TRUE
MayLock(mx, m) == ~IsSome(mx[m])

\* The schedule worker is one spawned task; commands run as tasks of their own.
Worker == 0
Commands == 1..MaxCommands
Procs == {Worker} \union Commands

\* A path through a command, as the steps that matter to the mutexes:
\* x.lock().await, the end of a guard's life (drop or end of scope), the call
\* of engine.execute_backup and its return, running.remove, and the return of
\* the function, which drops every guard still alive.
Lock(m) == [op |-> "lock", m |-> m]
Drop(m) == [op |-> "drop", m |-> m]
Enter == [op |-> "execute_backup", m |-> "backup_engine"]
Leave == [op |-> "executed", m |-> "backup_engine"]
Forget == [op |-> "running.remove", m |-> "app_state"]
Return == [op |-> "return", m |-> "none"]

\* execute_backup_with_trigger, by the way it ends: the set is not found; the
\* engine fails or finds nothing to back up; the archive is kept locally; the
\* archive is uploaded. The engine guard is dropped right after execute_backup.
TriggerCode(path) ==
    <<Lock("app_state"), Drop("app_state")>>
    \o (IF path = "not_found" THEN <<>>
        ELSE <<Lock("backup_engine"), Enter, Leave, Drop("backup_engine")>>)
    \o (IF path = "upload" THEN <<Lock("drive_client"), Drop("drive_client")>> ELSE <<>>)
    \o (IF path \in {"local", "upload"} THEN <<Lock("app_state"), Drop("app_state")>>
        ELSE <<>>)
    \o <<Return>>

\* run_backup, by the same four ways: its engine guard lives until it returns.
RunBackupCode(path) ==
    <<Lock("app_state"), Drop("app_state")>>
    \o (IF path = "not_found" THEN <<>> ELSE <<Lock("backup_engine"), Enter, Leave>>)
    \o (IF path = "upload" THEN <<Lock("drive_client"), Drop("drive_client")>> ELSE <<>>)
    \o (IF path \in {"local", "upload"} THEN <<Lock("app_state"), Drop("app_state")>>
        ELSE <<>>)
    \o <<Return>>

Paths == {"not_found", "failed", "local", "upload"}

\* The commands a task may be running, each with the ways it can go.
CommandNames ==
    {<<"run_backup", path>> : path \in Paths}
    \union {<<"get_google_auth_url", "ok">>,
            <<"exchange_google_code", "ok">>, <<"exchange_google_code", "failed">>,
            <<"disconnect_google", "ok">>, <<"disconnect_google", "failed">>,
            <<"detect_location", "ok">>, <<"detect_location", "failed">>,
            <<"set_location", "ok">>}

CommandCode(cmd) ==
    CASE cmd[1] = "run_backup" -> RunBackupCode(cmd[2])
      [] cmd[1] = "execute_backup_with_trigger" ->
            TriggerCode(cmd[2]) \o <<Lock("app_state"), Forget, Drop("app_state")>>
      [] cmd[1] = "poll" -> <<Lock("app_state"), Drop("app_state")>>
      [] cmd[1] = "get_google_auth_url" ->
            <<Lock("drive_client"), Lock("app_state"), Return>>
      [] cmd[1] = "exchange_google_code" ->
            <<Lock("drive_client")>>
            \o (IF cmd[2] = "ok" THEN <<Lock("app_state"), Drop("app_state")>> ELSE <<>>)
            \o <<Return>>
      [] cmd[1] = "disconnect_google" ->
            <<Lock("app_state")>>
            \o (IF cmd[2] = "ok" THEN <<Lock("drive_client")>> ELSE <<>>)
            \o <<Return>>
      [] cmd[1] = "detect_location" ->
            <<Lock("weather_service")>>
            \o (IF cmd[2] = "ok" THEN <<Lock("app_state"), Drop("app_state")>> ELSE <<>>)
            \o <<Return>>
      [] cmd[1] = "set_location" ->
            <<Lock("weather_service"), Lock("app_state"), Return>>
      [] OTHER -> <<>>

\* What the worker's poll may find due: (schedule id, backup set id) pairs.
DueLists == {<<>>, <<1>>, <<2>>, <<1, 2>>}

\* A task: the code it runs and its position in it. The worker also has the
\* due list it iterates, its running set, the schedule whose run it awaits,
\* and the runs it has in flight.
IdleProc ==
    [cmd |-> <<"idle", "">>, pc |-> 1, due |-> <<>>, running |-> {}, inflight |-> <<>>,
     schedule |-> 0]

NoTasks ==
    /\ lock = Unlocked
    /\ tasks = [t \in Tasks |-> IdleTask]
    /\ mutexes = Released
    /\ procs = [p \in Procs |-> IdleProc]

\* Scheduler::get_schedule
GetSchedule(map, id) == map[id]

\* Scheduler::mark_completed, its first assignment: last_run = Some(Utc::now()).
StampLastRun(map, id, u) ==
    [map EXCEPT ![id] = Some([Unwrap(map[id]) EXCEPT !.last_run = Some(u)])]
\* Scheduler::mark_completed, its second statement: calculate_next_run().
Recalculate(map, id, u, zone) ==
    [map EXCEPT ![id] = Some(CalculateNextRun(Unwrap(map[id]), u, zone))]

\* StateManager: AppState.schedules, a Vec<Schedule>.  Every handler below
\* ends with save(), so app_state.json holds the same list.
FindSchedule(scheds, id) ==
    LET at == {i \in DOMAIN scheds : scheds[i].id = id} IN
    IF at = {} THEN 0 ELSE SetMin(at)

\* StateManager::load at startup: the saved schedules, each with next_run
\* recomputed.
StateLoad(scheds, u, zone) ==
    [i \in DOMAIN scheds |-> CalculateNextRun(scheds[i], u, zone)]

\* StateManager::add_schedule
StateAddSchedule(scheds, s) == Append(scheds, s)

\* StateManager::update_schedule
StateUpdateSchedule(scheds, schedule, u, zone) ==
    LET s == CalculateNextRun(schedule, u, zone)
        pos == FindSchedule(scheds, s.id)
    IN  IF pos # 0 THEN [scheds EXCEPT ![pos] = s] ELSE Append(scheds, s)

\* StateManager::remove_schedule
StateRemoveSchedule(scheds, id) == SelectSeq(scheds, LAMBDA s : s.id # id)

\* The scheduleType strings of the create_schedule command, lower-cased as
\* the command does, and the type each one selects.
ScheduleTypeStrings == {"daily", "weekly", "monthly", "weather", "custom"}
ScheduleTypeOf(str) ==
    CASE str = "daily" -> "Daily"
      [] str = "weekly" -> "Weekly"
      [] str = "monthly" -> "Monthly"
      [] str = "weather" -> "WeatherTriggered"
      [] OTHER -> "Manual"

\* The create_schedule command: the schedule it builds and stores.
CreateSchedule(id, set_id, type_str, time, days, dom, u, zone) ==
    LET s0 == NewSchedule(id, set_id, ScheduleTypeOf(type_str))
        s1 == [s0 EXCEPT !.time = IF IsSome(time) THEN time ELSE @,
                         !.days_of_week = IF IsSome(days) THEN Unwrap(days) ELSE @,
                         !.day_of_month = dom]
    IN  CalculateNextRun(s1, u, zone)

\* The schedule worker's poll: the (schedule id, backup set id) of the
\* schedules that are enabled and due, in list order.
WorkerDue(scheds, u) ==
    LET d == SelectSeq(scheds, LAMBDA s : s.enabled /\ ShouldRunNow(s, u)) IN
    [i \in DOMAIN d |-> <<d[i].id, d[i].backup_set_id>>]

\* execute_backup_with_trigger as the worker sees it: it fails when the
\* backup set is not found, and may succeed or fail otherwise.
RunOutcomes(set_id) ==
    IF set_id \in SetIds THEN {Ok("backup"), Err("backup failed")}
    ELSE {Err("Backup set not found")}

\* The worker after one run attempt: last_run and next_run of the schedule
\* are renewed when the run succeeded.
WorkerStamp(scheds, id, run_result, u, zone) ==
    LET pos == FindSchedule(scheds, id) IN
    IF pos # 0 /\ run_result.ok
    THEN [scheds EXCEPT ![pos] =
            CalculateNextRun([scheds[pos] EXCEPT !.last_run = Some(u)], u, zone)]
    ELSE scheds

\* The instants the clock passes through while schedules are watched.
ClockSteps ==
    <<At(2025, 1, 14, 15), At(2025, 1, 15, 15), At(2025, 1, 31, 15)>>

\* No schedule exists and the schedule worker is idle.
NoSchedules ==
    /\ clock = ClockSteps[1]
    /\ tz = "UTC"
    /\ schedules = <<>>
    /\ nextSchedId = 1
    /\ due = <<>>
    /\ scheduler = EmptyScheduler

\* ------------------------------------------------------------ the actions
TheStore == Store(bodies, index)

Init ==
    /\ fs = [f \in Files |-> 0]
    /\ bodies = EmptyStore.bodies
    /\ index = EmptyStore.index
    /\ now = 0
    /\ nextId = 1
    /\ archives = [i \in Ids |-> None]
    /\ events = <<>>
    /\ result = [op |-> "none"]
    /\ NoSchedules
    /\ NoContainer
    /\ faults = NoFaults
    /\ NoTasks

\* The clock advances.
Tick ==
    /\ now < MaxTime
    /\ now' = now + 1
    /\ result' = [op |-> "tick"]
    /\ UNCHANGED <<fs, bodies, index, nextId, archives, events>>
    /\ UNCHANGED schedVars
    /\ UNCHANGED splitVars
    /\ UNCHANGED faults
    /\ UNCHANGED lockVars

\* The user writes or removes a file of a source root.
WriteFile ==
    \E f \in Files, c \in Contents \cup {0} :
        /\ fs[f] # c
        /\ fs' = [fs EXCEPT ![f] = c]
        /\ result' = [op |-> "write_file"]
        /\ UNCHANGED <<bodies, index, now, nextId, archives, events>>
        /\ UNCHANGED schedVars
        /\ UNCHANGED splitVars
        /\ UNCHANGED faults
        /\ UNCHANGED lockVars

\* BackupEngine::execute_backup on the configured set s, incremental or full.
RunBackupDuring(s, inc, later) ==
        \E out \in {ExecuteBackupDuring(TheStore, fs, later, faults, BackupSets[s], inc,
                                         nextId, now)} :
        /\ IsSome(out.archive) => nextId <= MaxManifests
        /\ bodies' = out.store.bodies
        /\ index' = out.store.index
        /\ archives' = IF IsSome(out.archive)
                       THEN [archives EXCEPT ![nextId] = out.archive]
                       ELSE archives
        /\ nextId' = IF IsSome(out.archive) THEN nextId + 1 ELSE nextId
        /\ events' = out.events
        /\ result' = [op |-> "execute_backup", set |-> s, incremental |-> inc,
                      ret |-> out.ret, steps |-> out.steps]
        /\ now' = IF IsSome(out.archive) THEN now + 1 ELSE now
        /\ fs' = later
        /\ UNCHANGED schedVars
        /\ UNCHANGED splitVars
        /\ UNCHANGED faults
        /\ UNCHANGED lockVars

RunBackup(s, inc) == RunBackupDuring(s, inc, fs)

DoExecuteBackup == \E s \in SetIds, inc \in BOOLEAN : RunBackup(s, inc)

\* The Google Drive client as a run finds it: not connected, or connected
\* with the upload of the archive failing, the upload of the manifest
\* failing, or both uploads succeeding.
DriveStates == {"disconnected", "upload_fails", "manifest_fails", "ok"}

\* execute_backup_with_trigger after a run that backed something up: the
\* upload when the set asks for it and a client is connected (the manifest
\* follows the archive), then the removal of the archive file when the set
\* has no local destination.  on_disk and uploaded say where the archive of
\* the run is afterwards; errors are the upload:error events.
PostProcess(set, archive, drive) ==
    LET uploaded == set.cloud_upload /\ drive \in {"manifest_fails", "ok"}
        errors == IF ~set.cloud_upload \/ drive = "ok" THEN <<>>
                  ELSE IF drive = "disconnected"
                  THEN <<"Cloud upload skipped: Google Drive not connected">>
                  ELSE IF drive = "upload_fails" THEN <<"Cloud upload failed">>
                  ELSE <<"Manifest upload failed">>
    IN  [archive |-> [on_disk |-> IsSome(set.local_destination), uploaded |-> uploaded]
                        @@ archive,
         manifest_uploaded |-> set.cloud_upload /\ drive = "ok",
         errors |-> errors]

\* execute_backup_with_trigger: the set is looked up (cloud_upload as the
\* user has configured it), the engine runs, and a run that backed something
\* up is post-processed and recorded in the set's statistics.
DoExecuteBackupWithTrigger ==
    \E s \in SetIds \cup {"gone"}, inc \in BOOLEAN, cloud_upload \in BOOLEAN,
       drive \in DriveStates :
        IF s \notin SetIds
        THEN /\ ~inc /\ ~cloud_upload /\ drive = "disconnected"
             /\ result' = [op |-> "execute_backup_with_trigger", set |-> s,
                           ret |-> Err("Backup set not found")]
             /\ UNCHANGED <<fs, bodies, index, now, nextId, archives, events>>
             /\ UNCHANGED schedVars
             /\ UNCHANGED splitVars
             /\ UNCHANGED faults
             /\ UNCHANGED lockVars
        ELSE
        \E out \in {ExecuteBackup(TheStore, fs, faults,
                                  [BackupSets[s] EXCEPT !.cloud_upload = cloud_upload],
                                  inc, nextId, now)} :
        LET set == [BackupSets[s] EXCEPT !.cloud_upload = cloud_upload]
            no_changes == out.ret.ok /\ out.ret.val.total_bytes = 0
                                    /\ out.ret.val.total_files = 0
            processed == out.ret.ok /\ ~no_changes
            post == PostProcess(set, Unwrap(out.archive), drive)
        IN
        /\ IsSome(out.archive) => nextId <= MaxManifests
        /\ ~cloud_upload => drive = "disconnected"
        /\ bodies' = out.store.bodies
        /\ index' = out.store.index
        /\ archives' = IF ~IsSome(out.archive) THEN archives
                       ELSE IF processed
                       THEN [archives EXCEPT ![nextId] = Some(post.archive)]
                       ELSE [archives EXCEPT ![nextId] =
                                Some([on_disk |-> TRUE, uploaded |-> FALSE]
                                        @@ Unwrap(out.archive))]
        /\ nextId' = IF IsSome(out.archive) THEN nextId + 1 ELSE nextId
        /\ events' = out.events
        /\ result' = [op |-> "execute_backup_with_trigger", set |-> s,
                      incremental |-> inc, cloud_upload |-> cloud_upload,
                      drive |-> drive, ret |-> out.ret,
                      errors |-> IF processed THEN post.errors ELSE <<>>,
                      recorded |-> IF processed THEN Some(out.ret.val.total_bytes)
                                   ELSE None]
        /\ now' = IF IsSome(out.archive) THEN now + 1 ELSE now
        /\ UNCHANGED fs
        /\ UNCHANGED schedVars
        /\ UNCHANGED splitVars
        /\ UNCHANGED faults
        /\ UNCHANGED lockVars

\* execute_backup with incremental = true.
DoIncrementalBackup == \E s \in SetIds : RunBackup(s, TRUE)

Reverse(s) == [i \in DOMAIN s |-> s[Len(s) + 1 - i]]

\* BackupEngine::get_changed_files on a scan of the set's sources, in walk
\* order or in the opposite order.
DoGetChangedFiles ==
    \E s \in SetIds, rev \in BOOLEAN :
        LET scanned == ScanSources(fs, faults, BackupSets[s].sources,
                                   BackupSets[s].exclude_patterns)
            all == scanned.val
            scan == IF rev THEN Reverse(all) ELSE all
        IN  /\ scanned.ok
            /\ result' = [op |-> "get_changed_files", set |-> s, scan |-> scan,
                          ret |-> GetChangedFiles(TheStore, BackupSets[s], scan, now)]
            /\ UNCHANGED <<fs, bodies, index, now, nextId, archives, events>>
            /\ UNCHANGED schedVars
            /\ UNCHANGED splitVars
            /\ UNCHANGED faults
            /\ UNCHANGED lockVars

\* ManifestManager::load_manifest.
DoLoadManifest ==
    \E s \in SetIds :
        /\ result' = [op |-> "load_manifest", set |-> s,
                      ret |-> LoadManifest(TheStore, s, now)]
        /\ UNCHANGED <<fs, bodies, index, now, nextId, archives, events>>
        /\ UNCHANGED schedVars
        /\ UNCHANGED splitVars
        /\ UNCHANGED faults
        /\ UNCHANGED lockVars

\* ManifestManager::load_manifest_by_id.
DoLoadManifestById ==
    \E id \in Ids :
        /\ result' = [op |-> "load_manifest_by_id", id |-> id,
                      ret |-> LoadManifestById(TheStore, id)]
        /\ UNCHANGED <<fs, bodies, index, now, nextId, archives, events>>
        /\ UNCHANGED schedVars
        /\ UNCHANGED splitVars
        /\ UNCHANGED faults
        /\ UNCHANGED lockVars

\* ManifestManager::delete_manifest.
DoDeleteManifest ==
    \E id \in Ids :
        LET out == DeleteManifest(TheStore, id, now) IN
        /\ bodies' = out.store.bodies
        /\ index' = out.store.index
        /\ result' = [op |-> "delete_manifest", id |-> id,
                      existed |-> IsSome(bodies[id]), ret |-> out.ret]
        /\ UNCHANGED <<fs, now, nextId, archives, events>>
        /\ UNCHANGED schedVars
        /\ UNCHANGED splitVars
        /\ UNCHANGED faults
        /\ UNCHANGED lockVars

\* ManifestManager::cleanup_expired.
DoCleanupExpired ==
    LET out == CleanupExpired(TheStore, now) IN
    /\ bodies' = out.store.bodies
    /\ index' = out.store.index
    /\ result' = [op |-> "cleanup_expired", ret |-> out.ret]
    /\ UNCHANGED <<fs, now, nextId, archives, events>>
    /\ UNCHANGED schedVars
    /\ UNCHANGED splitVars
    /\ UNCHANGED faults
    /\ UNCHANGED lockVars

\* ManifestManager::update_cloud_location.
DoUpdateCloudLocation ==
    \E id \in Ids, loc \in CloudLocs :
        LET out == UpdateCloudLocation(TheStore, id, loc, now) IN
        /\ bodies' = out.store.bodies
        /\ index' = out.store.index
        /\ result' = [op |-> "update_cloud_location", id |-> id, loc |-> loc,
                      ret |-> out.ret]
        /\ UNCHANGED <<fs, now, nextId, archives, events>>
        /\ UNCHANGED schedVars
        /\ UNCHANGED splitVars
        /\ UNCHANGED faults
        /\ UNCHANGED lockVars

\* ManifestManager::save_manifest, called with a manifest of one root's
\* files built as execute_backup builds it (created now, no cloud location,
\* the set's retention), under any id.
NewManifest(id, set, files, t) ==
    [id |-> id, backup_set_id |-> set.id, created_at |-> t,
     files |-> [i \in DOMAIN files |-> [files[i] EXCEPT !.backed_up_at = Some(t)]],
     total_size |-> SumSeq([i \in DOMAIN files |-> files[i].size]),
     compressed_size |-> Len(files) + SumSeq([i \in DOMAIN files |-> files[i].size]),
     cloud_location |-> None,
     retention_until |-> IF IsSome(set.retention_days)
                         THEN Some(t + Unwrap(set.retention_days)) ELSE None]

DoSaveManifest ==
    \E id \in Ids, s \in SetIds, r \in {"r1", "r2"} :
        LET m == NewManifest(id, BackupSets[s], ScanDirectory(fs, faults, r, <<>>).val, now)
            out == SaveManifest(TheStore, m, now)
        IN  /\ ScanDirectory(fs, faults, r, <<>>).ok
            /\ bodies' = out.store.bodies
            /\ index' = out.store.index
            /\ result' = [op |-> "save_manifest", id |-> id, manifest |-> m,
                          existed |-> IsSome(bodies[id]), ret |-> out.ret]
            /\ UNCHANGED <<fs, now, nextId, archives, events>>
            /\ UNCHANGED schedVars
            /\ UNCHANGED splitVars
            /\ UNCHANGED faults
            /\ UNCHANGED lockVars

\* The process stops inside save_manifest: after the body file is written and before the index is
\* rewritten ("between"), or while the index document is being rewritten,
\* which leaves bytes that do not deserialize ("index").
SaveManifestStopped(st, m, at) ==
    LET written == Store([st.bodies EXCEPT ![m.id] = Some(m)], st.index) IN
    IF at = "between" THEN written ELSE Store(written.bodies, CorruptIndex)

\* The process stops inside delete_manifest, at the same two places.
DeleteManifestStopped(st, id, at) ==
    LET removed == Store([st.bodies EXCEPT ![id] = None], st.index) IN
    IF at = "between" THEN removed ELSE Store(removed.bodies, CorruptIndex)

StopPoints == {"between", "index"}

CrashInSaveManifest ==
    \E id \in Ids, s \in SetIds, at \in StopPoints :
        LET m == NewManifest(id, BackupSets[s], ScanDirectory(fs, faults, "r1", <<>>).val, now)
            out == SaveManifestStopped(TheStore, m, at)
        IN  /\ ScanDirectory(fs, faults, "r1", <<>>).ok
            /\ at = "index" => LoadIndex(TheStore, now).ok
            /\ bodies' = out.bodies
            /\ index' = out.index
            /\ result' = [op |-> "crash", id |-> id]
            /\ UNCHANGED <<fs, now, nextId, archives, events>>
            /\ UNCHANGED schedVars
            /\ UNCHANGED splitVars
            /\ UNCHANGED faults
            /\ UNCHANGED lockVars

CrashInDeleteManifest ==
    \E id \in Ids, at \in StopPoints :
        LET out == DeleteManifestStopped(TheStore, id, at) IN
        /\ at = "index" => LoadIndex(TheStore, now).ok
        /\ bodies' = out.bodies
        /\ index' = out.index
        /\ result' = [op |-> "crash", id |-> id]
        /\ UNCHANGED <<fs, now, nextId, archives, events>>
        /\ UNCHANGED schedVars
        /\ UNCHANGED splitVars
        /\ UNCHANGED faults
        /\ UNCHANGED lockVars

\* The backup engine: the user's files change, backups run, scans are diffed.
\* ----------------------------------------------------- scheduler actions
coreVarsButLock == <<fs, bodies, index, now, nextId, archives, events, splitVars, faults,
                     mutexVars>>
coreVars == <<coreVarsButLock, lockVars>>

\* Nothing has been backed up.
NoBackups ==
    /\ fs = [f \in Files |-> 0]
    /\ bodies = EmptyStore.bodies
    /\ index = EmptyStore.index
    /\ now = 0
    /\ nextId = 1
    /\ archives = [i \in Ids |-> None]
    /\ events = <<>>

\* Time passes to the next instant of ClockSteps.
TickClock ==
    \E i \in DOMAIN ClockSteps :
        /\ clock = ClockSteps[i]
        /\ i < Len(ClockSteps)
        /\ clock' = ClockSteps[i + 1]
        /\ result' = [op |-> "tick"]
        /\ UNCHANGED <<coreVars, tz, schedules, nextSchedId, due, scheduler>>

\* Schedule::calculate_next_run on a schedule of the map.
DoCalculateNextRun ==
    \E id \in Present(scheduler) :
        /\ scheduler' = [scheduler EXCEPT ![id] =
                            Some(CalculateNextRun(Unwrap(scheduler[id]), clock, tz))]
        /\ result' = [op |-> "calculate_next_run", id |-> id]
        /\ UNCHANGED <<coreVars, clock, tz, schedules, nextSchedId, due>>

\* Schedule::should_run_now on a schedule of the map.
DoShouldRunNow ==
    \E id \in Present(scheduler) :
        /\ result' = [op |-> "should_run_now", id |-> id,
                      ret |-> ShouldRunNow(Unwrap(scheduler[id]), clock)]
        /\ UNCHANGED <<coreVars, schedVars>>

\* The schedules handed to Scheduler::add_schedule.
SchedulerInputs ==
    {Schedule(id, set_id, type, enabled, Some("02:00"), <<>>, Some(1), None, next_run) :
        id \in SchedIds, set_id \in {"s1", "s2"},
        type \in {"Daily", "Monthly", "Manual"}, enabled \in BOOLEAN,
        next_run \in {None, Some(clock)}}

\* Scheduler::add_schedule
DoAddSchedule ==
    \E s \in SchedulerInputs :
        /\ s.id = 1 => s.backup_set_id = "s1"
        /\ scheduler' = SchedulerInsert(scheduler, s)
        /\ result' = [op |-> "add_schedule", id |-> s.id]
        /\ UNCHANGED <<coreVars, clock, tz, schedules, nextSchedId, due>>

\* Scheduler::remove_schedule
DoRemoveSchedule ==
    \E id \in SchedIds :
        /\ scheduler' = SchedulerRemove(scheduler, id)
        /\ result' = [op |-> "remove_schedule", id |-> id]
        /\ UNCHANGED <<coreVars, clock, tz, schedules, nextSchedId, due>>

\* Scheduler::get_pending_backups
DoGetPendingBackups ==
    \E order \in IterationOrders(scheduler) :
        /\ result' = [op |-> "get_pending_backups",
                      ret |-> GetPendingBackups(scheduler, order, clock)]
        /\ UNCHANGED <<coreVars, schedVars>>

\* Scheduler::mark_completed
DoMarkCompleted ==
    \E id \in SchedIds :
        /\ scheduler' = MarkCompleted(scheduler, id, clock, tz)
        /\ result' = [op |-> "mark_completed", id |-> id]
        /\ UNCHANGED <<coreVars, clock, tz, schedules, nextSchedId, due>>

\* The weather-triggered schedules handed to Scheduler::add_schedule: up to
\* two triggers each, possibly of the same alert type.
TriggerLists ==
    LET T == {WeatherTrigger(a, e) : a \in {"Tornado", "FlashFlood"}, e \in BOOLEAN}
    IN  {<<>>} \cup {<<t>> : t \in T} \cup {<<t1, t2>> : t1 \in T, t2 \in T}
WeatherSchedules ==
    {[Schedule(id, set_id, "WeatherTriggered", enabled, Some("02:00"), <<>>, None,
               None, None) EXCEPT !.weather_triggers = triggers] :
        id \in SchedIds, set_id \in {"s1", "s2"}, enabled \in BOOLEAN,
        triggers \in TriggerLists}

\* Scheduler::add_schedule with a weather-triggered schedule.
DoAddWeatherSchedule ==
    \E s \in WeatherSchedules :
        /\ s.id = 1 => s.backup_set_id = "s1"
        /\ scheduler' = SchedulerInsert(scheduler, s)
        /\ result' = [op |-> "add_schedule", id |-> s.id]
        /\ UNCHANGED <<coreVars, clock, tz, schedules, nextSchedId, due>>

\* The batches of active alert categories handed to check_weather_triggers.
AlertBatches ==
    {<<>>, <<"Tornado">>, <<"FlashFlood">>, <<"WinterStorm">>,
     <<"Tornado", "FlashFlood">>, <<"Tornado", "Tornado">>}

\* Scheduler::check_weather_triggers
DoCheckWeatherTriggers ==
    \E order \in IterationOrders(scheduler), alerts \in AlertBatches :
        /\ result' = [op |-> "check_weather_triggers", alerts |-> alerts,
                      ret |-> CheckWeatherTriggers(scheduler, order, alerts)]
        /\ UNCHANGED <<coreVars, schedVars>>

\* The calls the concurrent tasks make on the Scheduler.
LockSchedules ==
    {[Schedule(1, "s1", type, TRUE, Some("02:00"), <<>>, Some(1), None, Some(clock))
        EXCEPT !.weather_triggers = <<WeatherTrigger("Tornado", TRUE)>>] :
        type \in {"Daily", "Manual"}}
LockCalls ==
    {[op |-> o, id |-> 1, schedule |-> Some(s), alerts |-> <<>>] :
        o \in {"add_schedule", "update_schedule"}, s \in LockSchedules}
    \cup {[op |-> o, id |-> 1, schedule |-> None, alerts |-> <<>>] :
            o \in {"remove_schedule", "mark_completed", "get_schedule",
                   "get_pending_backups"}}
    \cup {[op |-> "check_weather_triggers", id |-> 1, schedule |-> None,
           alerts |-> <<"Tornado">>]}

\* A task calls a method of the Scheduler and awaits the lock.
CallScheduler ==
    \E t \in Tasks, c \in LockCalls :
        /\ tasks[t].pc = "idle"
        /\ tasks' = [tasks EXCEPT ![t] =
                        [IdleTask EXCEPT !.pc = "waiting", !.op = c.op, !.id = c.id,
                                         !.schedule = c.schedule, !.alerts = c.alerts]]
        /\ lock' = [lock EXCEPT !.queue = Append(lock.queue, t)]
        /\ UNCHANGED <<coreVarsButLock, schedVars, result>>

\* self.schedules.write().await returns the write guard.
AcquireWrite ==
    \E t \in Tasks :
        /\ tasks[t].pc = "waiting" /\ tasks[t].op \in WriteOps
        /\ lock.queue # <<>> /\ Head(lock.queue) = t
        /\ MayWrite(lock)
        /\ lock' = [lock EXCEPT !.writer = Some(t), !.queue = Tail(lock.queue)]
        /\ tasks' = [tasks EXCEPT ![t].pc = "locked", ![t].before = Some(scheduler)]
        /\ UNCHANGED <<coreVarsButLock, schedVars, result>>

\* self.schedules.read().await returns a read guard.
AcquireRead ==
    \E t \in Tasks :
        /\ tasks[t].pc = "waiting" /\ tasks[t].op \in ReadOps
        /\ lock.queue # <<>> /\ Head(lock.queue) = t
        /\ MayRead(lock)
        /\ lock' = [lock EXCEPT !.readers = lock.readers \cup {t},
                                !.queue = Tail(lock.queue)]
        /\ tasks' = [tasks EXCEPT ![t].pc = "locked"]
        /\ UNCHANGED <<coreVarsButLock, schedVars, result>>

\* add_schedule and update_schedule under the write guard: schedules.insert.
LockedInsert ==
    \E t \in Tasks :
        /\ tasks[t].pc = "locked"
        /\ tasks[t].op \in {"add_schedule", "update_schedule"}
        /\ scheduler' = SchedulerInsert(scheduler, Unwrap(tasks[t].schedule))
        /\ tasks' = [tasks EXCEPT ![t].pc = "done"]
        /\ UNCHANGED <<coreVarsButLock, lock, clock, tz, schedules, nextSchedId, due,
                       result>>

\* remove_schedule under the write guard: schedules.remove.
LockedRemove ==
    \E t \in Tasks :
        /\ tasks[t].pc = "locked" /\ tasks[t].op = "remove_schedule"
        /\ scheduler' = SchedulerRemove(scheduler, tasks[t].id)
        /\ tasks' = [tasks EXCEPT ![t].pc = "done"]
        /\ UNCHANGED <<coreVarsButLock, lock, clock, tz, schedules, nextSchedId, due,
                       result>>

\* mark_completed under the write guard: get_mut finds the schedule and
\* last_run is assigned.
LockedStampLastRun ==
    \E t \in Tasks :
        /\ tasks[t].pc = "locked" /\ tasks[t].op = "mark_completed"
        /\ IsSome(scheduler[tasks[t].id])
        /\ scheduler' = StampLastRun(scheduler, tasks[t].id, clock)
        /\ tasks' = [tasks EXCEPT ![t].pc = "stamped"]
        /\ UNCHANGED <<coreVarsButLock, lock, clock, tz, schedules, nextSchedId, due,
                       result>>

\* mark_completed under the write guard: calculate_next_run on the schedule.
LockedRecalculate ==
    \E t \in Tasks :
        /\ tasks[t].pc = "stamped"
        /\ scheduler' = Recalculate(scheduler, tasks[t].id, clock, tz)
        /\ tasks' = [tasks EXCEPT ![t].pc = "done"]
        /\ UNCHANGED <<coreVarsButLock, lock, clock, tz, schedules, nextSchedId, due,
                       result>>

\* mark_completed under the write guard: get_mut finds no schedule.
LockedNotFound ==
    \E t \in Tasks :
        /\ tasks[t].pc = "locked" /\ tasks[t].op = "mark_completed"
        /\ ~IsSome(scheduler[tasks[t].id])
        /\ tasks' = [tasks EXCEPT ![t].pc = "done"]
        /\ UNCHANGED <<coreVarsButLock, lock, schedVars, result>>

\* get_schedule, get_pending_backups and check_weather_triggers under a read
\* guard: the value to return is computed from the map.
LockedRead ==
    \E t \in Tasks, order \in IterationOrders(scheduler) :
        /\ tasks[t].pc = "locked" /\ tasks[t].op \in ReadOps
        /\ tasks' = [tasks EXCEPT ![t].pc = "done", ![t].ret =
                CASE tasks[t].op = "get_schedule" -> GetSchedule(scheduler, tasks[t].id)
                  [] tasks[t].op = "get_pending_backups" ->
                        GetPendingBackups(scheduler, order, clock)
                  [] tasks[t].op = "check_weather_triggers" ->
                        CheckWeatherTriggers(scheduler, order, tasks[t].alerts)]
        /\ UNCHANGED <<coreVarsButLock, lock, schedVars, result>>

\* A writing method returns: its write guard is dropped.
ReleaseWrite ==
    \E t \in Tasks :
        /\ tasks[t].pc = "done" /\ tasks[t].op \in WriteOps
        /\ lock' = [lock EXCEPT !.writer = None]
        /\ tasks' = [tasks EXCEPT ![t] = IdleTask]
        /\ result' = [op |-> tasks[t].op, task |-> t, ret |-> <<>>]
        /\ UNCHANGED <<coreVarsButLock, schedVars>>

\* A reading method returns: its read guard is dropped.
ReleaseRead ==
    \E t \in Tasks :
        /\ tasks[t].pc = "done" /\ tasks[t].op \in ReadOps
        /\ lock' = [lock EXCEPT !.readers = lock.readers \ {t}]
        /\ tasks' = [tasks EXCEPT ![t] = IdleTask]
        /\ result' = [op |-> tasks[t].op, task |-> t, ret |-> tasks[t].ret]
        /\ UNCHANGED <<coreVarsButLock, schedVars>>

\* The arguments of the create_schedule command: backup set id, schedule
\* type string and days of the week (time and day of month are not given).
CreateInputs ==
    {<<"s1", "daily", None>>, <<"gone", "daily", None>>,
     <<"s1", "weekly", Some(<<1, 3, 5>>)>>, <<"s1", "weekly", None>>,
     <<"s1", "monthly", None>>, <<"s1", "weather", None>>,
     <<"s1", "custom", None>>}

\* The create_schedule command (every schedule after the first is a daily
\* one of set s1).
DoCreateSchedule ==
    \E in \in CreateInputs :
        LET s == CreateSchedule(nextSchedId, in[1], in[2], None, in[3], None,
                                clock, tz)
        IN  /\ nextSchedId <= MaxSchedules
            /\ nextSchedId > 1 => in = <<"s1", "daily", None>>
            /\ schedules' = StateAddSchedule(schedules, s)
            /\ nextSchedId' = nextSchedId + 1
            /\ result' = [op |-> "create_schedule", id |-> s.id]
            /\ UNCHANGED <<coreVars, clock, tz, due, scheduler>>

\* The update_schedule command: the user edits the type or the enabled
\* flag of a schedule and the edited schedule is sent back.
DoUpdateSchedule ==
    \E pos \in DOMAIN schedules, type \in {"Daily", "Manual"}, enabled \in BOOLEAN :
        LET s == [schedules[pos] EXCEPT !.schedule_type = type, !.enabled = enabled]
        IN  /\ s # schedules[pos]
            /\ schedules' = StateUpdateSchedule(schedules, s, clock, tz)
            /\ result' = [op |-> "update_schedule", id |-> s.id]
            /\ UNCHANGED <<coreVars, clock, tz, nextSchedId, due, scheduler>>

\* The delete_schedule command.
DoDeleteSchedule ==
    \E pos \in DOMAIN schedules :
        /\ schedules' = StateRemoveSchedule(schedules, schedules[pos].id)
        /\ result' = [op |-> "delete_schedule", id |-> schedules[pos].id]
        /\ UNCHANGED <<coreVars, clock, tz, nextSchedId, due, scheduler>>

\* The application is restarted: StateManager::load reads app_state.json
\* and the schedule worker starts anew.
DoLoad ==
    /\ schedules' = StateLoad(schedules, clock, tz)
    /\ due' = <<>>
    /\ result' = [op |-> "load"]
    /\ UNCHANGED <<coreVars, clock, tz, nextSchedId, scheduler>>

\* The schedule worker polls: it collects the due schedules.
WorkerPoll ==
    /\ due = <<>>
    /\ due' = WorkerDue(schedules, clock)
    /\ result' = [op |-> "worker_poll"]
    /\ UNCHANGED <<coreVars, clock, tz, schedules, nextSchedId, scheduler>>

\* The schedule worker attempts the run of the next due schedule and
\* records the outcome.
WorkerAttempt ==
    /\ due # <<>>
    /\ \E run_result \in RunOutcomes(Head(due)[2]) :
        /\ schedules' = WorkerStamp(schedules, Head(due)[1], run_result, clock, tz)
        /\ result' = [op |-> "worker_attempt", id |-> Head(due)[1],
                      ok |-> run_result.ok]
    /\ due' = Tail(due)
    /\ UNCHANGED <<coreVars, clock, tz, nextSchedId, scheduler>>

Next ==
    \/ WriteFile
    \/ DoExecuteBackup
    \/ DoGetChangedFiles

Spec == Init /\ [][Next]_vars

\* Backups run through execute_backup_with_trigger, with its post-processing,
\* over every tree of files of one content.
InitTrigger ==
    /\ fs \in [Files -> {0, 1}]
    /\ bodies = EmptyStore.bodies
    /\ index = EmptyStore.index
    /\ now = 0
    /\ nextId = 1
    /\ archives = [i \in Ids |-> None]
    /\ events = <<>>
    /\ result = [op |-> "none"]
    /\ NoSchedules
    /\ NoContainer
    /\ faults = NoFaults
    /\ NoTasks

NextTrigger == DoExecuteBackupWithTrigger

SpecTrigger == InitTrigger /\ [][NextTrigger]_vars

\* The source trees as they may be by the time a run that scanned `tree` opens
\* the files to archive them: the same files, any of them grown to 3 bytes
\* meanwhile.
LaterTrees(tree) ==
    {later \in [Files -> Contents \cup {0, 3}] :
        \A f \in Files : later[f] = tree[f] \/ (tree[f] # 0 /\ later[f] = 3)}

\* execute_backup while other programs write to the files it backs up.
DoExecuteBackupDuringWrites ==
    \E s \in SetIds, inc \in BOOLEAN, later \in LaterTrees(fs) : RunBackupDuring(s, inc, later)

NextDuringWrites == DoExecuteBackupDuringWrites

SpecDuringWrites == InitTrigger /\ [][NextDuringWrites]_vars

\* The backup engine when every run is incremental.
NextIncremental ==
    \/ WriteFile
    \/ DoIncrementalBackup
    \/ DoGetChangedFiles

SpecIncremental == Init /\ [][NextIncremental]_vars

\* The manifest store over fixed source trees: every operation of
\* ManifestManager, each call running to completion.
InitStore ==
    /\ fs = [f \in Files |-> IF f = <<"r1", "b">> THEN 2 ELSE 1]
    /\ bodies = EmptyStore.bodies
    /\ index = EmptyStore.index
    /\ now = 0
    /\ nextId = 1
    /\ archives = [i \in Ids |-> None]
    /\ events = <<>>
    /\ result = [op |-> "none"]
    /\ NoSchedules
    /\ NoContainer
    /\ faults = NoFaults
    /\ NoTasks

NextStore ==
    \/ Tick
    \/ DoSaveManifest
    \/ DoLoadManifest
    \/ DoLoadManifestById
    \/ DoDeleteManifest
    \/ DoCleanupExpired
    \/ DoUpdateCloudLocation

SpecStore == InitStore /\ [][NextStore]_vars

\* The manifest store when the process may also stop inside a write.
NextCrash ==
    \/ Tick
    \/ DoSaveManifest
    \/ DoLoadManifest
    \/ DoDeleteManifest
    \/ DoCleanupExpired
    \/ DoGetChangedFiles
    \/ CrashInSaveManifest
    \/ CrashInDeleteManifest

SpecCrash == InitStore /\ [][NextCrash]_vars

\* calculate_next_run and should_run_now as functions of the schedule, the
\* instant and the zone: one schedule, every instant of the days around the
\* month ends and the daylight-saving transitions of 2025.
CalcDays ==
    {Unwrap(Ymd(2025, 1, 30)) + i : i \in 0..2} \cup
    {Unwrap(Ymd(2025, 3, 8)) + i : i \in 0..2} \cup
    {Unwrap(Ymd(2025, 3, 29)) + i : i \in 0..2} \cup
    {Unwrap(Ymd(2025, 10, 25)) + i : i \in 0..2} \cup
    {Unwrap(Ymd(2025, 11, 1)) + i : i \in 0..2} \cup
    {Unwrap(Ymd(2025, 12, 30)) + i : i \in 0..2}
CalcInstants == {AndTime(d, h) : d \in CalcDays, h \in 0..23}
CalcTimes == {None} \cup {Some(t) : t \in TimeStrings}
CalcInputs(u) ==
    {Schedule(1, "s1", type, TRUE, time, days, dom, None, next_run) :
        type \in ScheduleTypes, time \in CalcTimes,
        days \in {<<>>, <<0>>, <<1, 3, 5>>},
        dom \in {None, Some(1), Some(15), Some(31)},
        next_run \in {None, Some(u - 1)}}

InitCalc ==
    /\ NoBackups
    /\ NoContainer
    /\ faults = NoFaults
    /\ NoTasks
    /\ result = [op |-> "none"]
    /\ clock \in CalcInstants
    /\ tz \in Zones
    /\ schedules = <<>>
    /\ nextSchedId = 1
    /\ due = <<>>
    /\ \E s \in CalcInputs(clock) :
        /\ s.schedule_type # "Weekly" => s.days_of_week = <<>>
        /\ s.schedule_type # "Monthly" => s.day_of_month = None
        /\ s.schedule_type \in {"Custom", "WeatherTriggered", "Manual"} =>
              s.time = Some("02:00")
        /\ scheduler = [EmptyScheduler EXCEPT ![1] = Some(s)]

NextCalc ==
    \/ DoCalculateNextRun
    \/ DoShouldRunNow

SpecCalc == InitCalc /\ [][NextCalc]_vars

\* The Scheduler and its schedule map.
InitScheduler ==
    /\ NoBackups
    /\ NoContainer
    /\ faults = NoFaults
    /\ NoTasks
    /\ result = [op |-> "none"]
    /\ clock = ClockSteps[1]
    /\ tz \in Zones
    /\ schedules = <<>>
    /\ nextSchedId = 1
    /\ due = <<>>
    /\ scheduler = EmptyScheduler

NextScheduler ==
    \/ TickClock
    \/ DoAddSchedule
    \/ DoRemoveSchedule
    \/ DoGetPendingBackups
    \/ DoMarkCompleted
    \/ DoShouldRunNow

SpecScheduler == InitScheduler /\ [][NextScheduler]_vars

\* The Scheduler holding weather-triggered schedules, asked which backup
\* sets a batch of alerts triggers.
NextWeather ==
    \/ DoAddWeatherSchedule
    \/ DoRemoveSchedule
    \/ DoCheckWeatherTriggers

SpecWeather == InitScheduler /\ [][NextWeather]_vars

\* Tasks calling the Scheduler concurrently through its RwLock.
InitLock ==
    /\ InitScheduler
    /\ tz = "UTC"

NextLock ==
    \/ CallScheduler
    \/ AcquireWrite
    \/ AcquireRead
    \/ LockedInsert
    \/ LockedRemove
    \/ LockedStampLastRun
    \/ LockedRecalculate
    \/ LockedNotFound
    \/ LockedRead
    \/ ReleaseWrite
    \/ ReleaseRead

SpecLock == InitLock /\ [][NextLock]_vars

\* ------------------------------------------ commands and worker on the mutexes
coreVarsButMutex == <<fs, bodies, index, now, nextId, archives, events, splitVars, faults,
                      lock, tasks, schedVars, result>>

\* The step a task is at, if its code has not run out.
Running(p) == procs[p].pc <= Len(CommandCode(procs[p].cmd))
AtStep(p, op) == Running(p) /\ CommandCode(procs[p].cmd)[procs[p].pc].op = op
Target(p) == CommandCode(procs[p].cmd)[procs[p].pc].m
\* A step is done: a command that has returned is a task that has ended.
Advanced(r, p) ==
    IF p # Worker /\ r.pc + 1 > Len(CommandCode(r.cmd)) THEN IdleProc
    ELSE [r EXCEPT !.pc = @ + 1]
\* execute_backup has been entered and has not returned.
Executing(p) == AtStep(p, "executed")

\* The frontend invokes a command.
CallCommand ==
    \E p \in Commands, cmd \in CommandNames :
        /\ procs[p] = IdleProc
        /\ procs' = [procs EXCEPT ![p] = [IdleProc EXCEPT !.cmd = cmd]]
        /\ UNCHANGED <<mutexes, coreVarsButMutex>>

\* The worker wakes from its sleep and collects the due schedules.
WorkerWake ==
    \E found \in DueLists :
        /\ procs[Worker] = IdleProc
        /\ procs' = [procs EXCEPT
                        ![Worker] = [IdleProc EXCEPT !.cmd = <<"poll", "">>, !.due = found]]
        /\ UNCHANGED <<mutexes, coreVarsButMutex>>

\* The worker's for loop: the next due schedule is skipped when it is in
\* running, otherwise it is put there and execute_backup_with_trigger is
\* awaited; after the last one the worker sleeps.
WorkerNext ==
    \E path \in Paths :
        LET w == procs[Worker]
        IN  /\ w # IdleProc
            /\ ~Running(Worker)
            /\ procs' = [procs EXCEPT ![Worker] =
                    IF w.due = <<>> THEN IdleProc
                    ELSE IF Head(w.due) \in w.running THEN [w EXCEPT !.due = Tail(@)]
                    ELSE [cmd |-> <<"execute_backup_with_trigger", path>>, pc |-> 1,
                          due |-> Tail(w.due), running |-> w.running \union {Head(w.due)},
                          inflight |-> Append(w.inflight, Head(w.due)),
                          schedule |-> Head(w.due)]]
            /\ UNCHANGED <<mutexes, coreVarsButMutex>>

\* x.lock().await completes.
Acquire ==
    \E p \in Procs :
        /\ AtStep(p, "lock")
        /\ MayLock(mutexes, Target(p))
        /\ mutexes' = [mutexes EXCEPT ![Target(p)] = Some(p)]
        /\ procs' = [procs EXCEPT ![p] = Advanced(@, p)]
        /\ UNCHANGED coreVarsButMutex

\* drop(guard), or the guard's scope ends.
Release ==
    \E p \in Procs :
        /\ AtStep(p, "drop")
        /\ mutexes' = [mutexes EXCEPT ![Target(p)] = None]
        /\ procs' = [procs EXCEPT ![p] = Advanced(@, p)]
        /\ UNCHANGED coreVarsButMutex

\* engine.execute_backup is called.
EnterExecute ==
    \E p \in Procs :
        /\ AtStep(p, "execute_backup")
        /\ procs' = [procs EXCEPT ![p] = Advanced(@, p)]
        /\ UNCHANGED <<mutexes, coreVarsButMutex>>

\* engine.execute_backup returns.
LeaveExecute ==
    \E p \in Procs :
        /\ AtStep(p, "executed")
        /\ procs' = [procs EXCEPT ![p] = Advanced(@, p)]
        /\ UNCHANGED <<mutexes, coreVarsButMutex>>

\* The worker, holding the state manager: running.remove(&schedule_id).
WorkerForget ==
    /\ AtStep(Worker, "running.remove")
    /\ procs' = [procs EXCEPT
                    ![Worker] = Advanced([@ EXCEPT !.running = @ \ {procs[Worker].schedule}],
                                         Worker)]
    /\ UNCHANGED <<mutexes, coreVarsButMutex>>

\* The function returns: its guards are dropped; the worker's awaited run is
\* no longer in flight.
ReturnStep ==
    \E p \in Procs :
        /\ AtStep(p, "return")
        /\ mutexes' = [m \in Mutexes |-> IF mutexes[m] = Some(p) THEN None ELSE mutexes[m]]
        /\ procs' = [procs EXCEPT ![p] =
                Advanced([@ EXCEPT !.inflight = SubSeq(@, 1, Len(@) - 1)], p)]
        /\ UNCHANGED coreVarsButMutex

NextMutex ==
    \/ CallCommand
    \/ WorkerWake
    \/ WorkerNext
    \/ Acquire
    \/ Release
    \/ EnterExecute
    \/ LeaveExecute
    \/ WorkerForget
    \/ ReturnStep

SpecMutex == InitLock /\ [][NextMutex]_vars

\* The chunk splitter on one finished container, left in the temp directory
\* or moved to the local destination.
Containers == UNION {[1..n -> ByteValues] : n \in 0..MaxContainer}
ContainerPaths == {Path(dir, "s1_1", <<"z", "i", "p">>) : dir \in {"temp", "dest"}}

InitSplit ==
    /\ NoBackups
    /\ NoSchedules
    /\ result = [op |-> "none"]
    /\ chunk_size \in ChunkSizes
    /\ faults = NoFaults
    /\ NoTasks
    /\ \E p \in ContainerPaths, bytes \in Containers : disk = (p :> bytes)

\* BackupEngine::split_into_chunks
DoSplitIntoChunks ==
    \E p \in ContainerPaths :
        LET out == SplitIntoChunks(disk, chunk_size, p) IN
        /\ disk' = out.disk
        /\ result' = [op |-> "split_into_chunks", path |-> p, ret |-> out.ret]
        /\ UNCHANGED <<fs, bodies, index, now, nextId, archives, events, chunk_size, faults,
                     lockVars>>
        /\ UNCHANGED schedVars

\* BackupEngine::cleanup_temp
DoCleanupTemp ==
    /\ disk' = CleanupTemp(disk)
    /\ result' = [op |-> "cleanup_temp"]
    /\ UNCHANGED <<fs, bodies, index, now, nextId, archives, events, chunk_size, faults,
                     lockVars>>
    /\ UNCHANGED schedVars

NextSplit ==
    \/ DoSplitIntoChunks
    \/ DoCleanupTemp

SpecSplit == InitSplit /\ [][NextSplit]_vars

\* The archiver on file lists whose names need not be valid UTF-8 and whose
\* entries may be older than the tree.
ArchiveFiles == {<<"r1", n>> : n \in {"a", "b", "n<FF>", "n<FE>"}}
ArchiveEntries ==
    {[path |-> f, relative_path |-> f[2], size |-> FileLen(c),
      hash |-> CalculateHash(c), backed_up_at |-> None] :
        f \in ArchiveFiles, c \in Contents}
ArchiveLists ==
    {<<>>} \cup {<<e>> : e \in ArchiveEntries}
           \cup {<<e1, e2>> : e1 \in ArchiveEntries, e2 \in ArchiveEntries}

InitArchive ==
    /\ fs \in [ArchiveFiles -> Contents]
    /\ bodies = EmptyStore.bodies
    /\ index = EmptyStore.index
    /\ now = 0
    /\ nextId = 1
    /\ archives = [i \in Ids |-> None]
    /\ events = <<>>
    /\ result = [op |-> "none"]
    /\ faults = NoFaults
    /\ NoSchedules
    /\ NoContainer
    /\ NoTasks

\* BackupEngine::create_archive
DoCreateArchive ==
    \E s \in SetIds, files \in ArchiveLists :
        \E made \in {CreateArchive(BackupSets[s], files, fs, nextId)} :
        /\ nextId <= MaxManifests
        /\ \A i, j \in DOMAIN files : files[i].path = files[j].path => i = j
        /\ archives' = [archives EXCEPT ![nextId] = Some(made.archive)]
        /\ nextId' = nextId + 1
        /\ events' = made.events
        /\ result' = [op |-> "create_archive", set |-> s, files |-> files,
                      ret |-> made.ret]
        /\ UNCHANGED <<fs, bodies, index, now>>
        /\ UNCHANGED schedVars
        /\ UNCHANGED splitVars
        /\ UNCHANGED faults
        /\ UNCHANGED lockVars

NextArchive == DoCreateArchive

SpecArchive == InitArchive /\ [][NextArchive]_vars

\* The scanner over source trees in which reaching a file may fail, and the
\* runs over such trees.
PatternLists ==
    {<<>>, <<"a">>, <<"b">>, <<"1">>, <<"1/a">>, <<"r2">>, <<"b", "a">>}

InitScan ==
    /\ fs \in [Files -> {0, 1}]
    /\ faults \in [Files -> FaultKinds]
    /\ \A f \in Files : fs[f] = 0 => faults[f] = "none"
    /\ NoTasks
    /\ bodies = EmptyStore.bodies
    /\ index = EmptyStore.index
    /\ now = 0
    /\ nextId = 1
    /\ archives = [i \in Ids |-> None]
    /\ events = <<>>
    /\ result = [op |-> "none"]
    /\ NoSchedules
    /\ NoContainer

\* BackupEngine::scan_directory on a source root.
DoScanDirectory ==
    \E root \in {"r1", "r2"}, patterns \in PatternLists :
        /\ result' = [op |-> "scan_directory", root |-> root, patterns |-> patterns,
                      ret |-> ScanDirectory(fs, faults, root, patterns)]
        /\ UNCHANGED <<fs, bodies, index, now, nextId, archives, events>>
        /\ UNCHANGED schedVars
        /\ UNCHANGED splitVars
        /\ UNCHANGED faults
        /\ UNCHANGED lockVars

NextScan ==
    \/ DoScanDirectory
    \/ DoExecuteBackup

SpecScan == InitScan /\ [][NextScan]_vars

\* The schedules of the application state, the schedule commands and the
\* schedule worker.
InitWorker ==
    /\ NoBackups
    /\ NoContainer
    /\ faults = NoFaults
    /\ NoTasks
    /\ result = [op |-> "none"]
    /\ clock = ClockSteps[1]
    /\ tz \in {"UTC", "America/New_York"}
    /\ schedules = <<>>
    /\ nextSchedId = 1
    /\ due = <<>>
    /\ scheduler = EmptyScheduler

NextWorker ==
    \/ TickClock
    \/ DoCreateSchedule
    \/ DoUpdateSchedule
    \/ DoDeleteSchedule
    \/ DoLoad
    \/ WorkerPoll
    \/ WorkerAttempt

SpecWorker == InitWorker /\ [][NextWorker]_vars

\* ------------------------------------------------------------ the claims
\* What the index says about one backup set.
SetEntries(ms, set_id) == {i \in DOMAIN ms : ms[i].backup_set_id = set_id}
LatestEntries(ms, set_id) ==
    {i \in SetEntries(ms, set_id) :
        \A j \in SetEntries(ms, set_id) : ms[j].created_at <= ms[i].created_at}
FilePaths(files) == {files[i].path : i \in DOMAIN files}

\* The diff as the specification words it: a scanned file is changed when no
\* entry of the prior manifest has its relative_path, or one has it with a
\* different hash.
SpecChanged(prev_files, f) ==
    \/ \A i \in DOMAIN prev_files : prev_files[i].relative_path # f.relative_path
    \/ \E i \in DOMAIN prev_files :
          /\ prev_files[i].relative_path = f.relative_path
          /\ prev_files[i].hash # f.hash
SpecDiff(prev_files, scan) == SelectSeq(scan, LAMBDA f : SpecChanged(prev_files, f))

\* C1: get_changed_files(set, scan) returns, in scan order, exactly the scan
\* entries whose relative_path is absent from the latest manifest of the set
\* or present there with a different hash; it is empty when every entry
\* matches, and the whole scan when the set has no manifest.
C1_ChangedFiles ==
    result.op = "get_changed_files" =>
        LET ms == index.manifests
            latest == LatestEntries(ms, result.set)
        IN  /\ result.ret.ok
            /\ latest = {} => result.ret.val = result.scan
            /\ latest # {} =>
                  \E i \in latest :
                      /\ IsSome(bodies[ms[i].id])
                      /\ result.ret.val =
                            SpecDiff(Unwrap(bodies[ms[i].id]).files, result.scan)
            /\ (latest # {} /\ \A k \in DOMAIN result.scan :
                    \E i \in latest : \E e \in Range(Unwrap(bodies[ms[i].id]).files) :
                        /\ e.relative_path = result.scan[k].relative_path
                        /\ e.hash = result.scan[k].hash)
                  => result.ret.val = <<>>

\* C1 witness: a diff against an existing manifest that keeps some scanned
\* files and drops others.
C1_Witness ==
    /\ result.op = "get_changed_files"
    /\ LatestEntries(index.manifests, result.set) # {}
    /\ result.ret.ok
    /\ Len(result.ret.val) >= 1
    /\ Len(result.ret.val) < Len(result.scan)

\* The manifest that was the latest of the set before a run that saved the
\* manifest new_id: the latest among the other index entries.
OtherEntries(ms, new_id) == SelectSeq(ms, LAMBDA e : e.id # new_id)

\* C2: an incremental execute_backup of a set whose latest manifest lists A
\* (fingerprint unchanged) and B (fingerprint differs) saves a manifest and
\* builds an archive that contain B and not A. Files are told apart by their
\* path; a run whose scan holds only files of that manifest, one of them
\* changed, succeeds.
C2_IncrementalOnlyChanged ==
    (result.op = "execute_backup" /\ result.incremental) =>
        LET set == BackupSets[result.set]
            new_id == IF result.ret.ok THEN result.ret.val.id ELSE 0
            ms == OtherEntries(index.manifests, new_id)
            scan == ScanSources(fs, faults, set.sources, set.exclude_patterns).val
        IN  \A i \in LatestEntries(ms, result.set) :
              LET prev == Unwrap(bodies[ms[i].id]).files
                  same == {e \in Range(prev) :
                             Exists(fs, e.path) /\ CalculateHash(fs[e.path]) = e.hash}
                  differs == {e \in Range(prev) :
                                Exists(fs, e.path) /\ CalculateHash(fs[e.path]) # e.hash}
              IN  /\ (differs # {} /\ FilePaths(scan) \subseteq FilePaths(prev))
                        => result.ret.ok
                  /\ result.ret.ok =>
                        LET backed == result.ret.val.files_backed_up IN
                        /\ \A e \in same : e.path \notin FilePaths(backed)
                        /\ \A e \in differs : e.path \in FilePaths(backed)
                        /\ backed # <<>> =>
                              LET arch == Unwrap(archives[result.ret.val.archive_path[3]]) IN
                              /\ IsSome(bodies[new_id])
                              /\ Unwrap(bodies[new_id]).files = backed
                              /\ arch.finished
                              /\ {x.source : x \in Range(arch.entries)} = FilePaths(backed)
                              /\ \A x \in Range(arch.entries) : x.content = fs[x.source]

\* C2 witness: an incremental run after which the prior manifest lists an
\* unchanged file that was left out and a changed file that was backed up.
C2_Witness ==
    /\ result.op = "execute_backup" /\ result.incremental /\ result.ret.ok
    /\ result.ret.val.files_backed_up # <<>>
    /\ LET ms == OtherEntries(index.manifests, result.ret.val.id) IN
       \E i \in LatestEntries(ms, result.set) :
          LET prev == Unwrap(bodies[ms[i].id]).files IN
          /\ \E e \in Range(prev) :
                /\ Exists(fs, e.path) /\ CalculateHash(fs[e.path]) = e.hash
                /\ e.path \notin FilePaths(result.ret.val.files_backed_up)
          /\ \E e \in Range(prev) :
                /\ Exists(fs, e.path) /\ CalculateHash(fs[e.path]) # e.hash
                /\ e.path \in FilePaths(result.ret.val.files_backed_up)

\* The run finds no file to back up: the scan is empty, or the run is
\* incremental and no scanned file differs from the set's latest manifest.
FindsNothing(set_id, inc) ==
    LET set == BackupSets[set_id]
        scan == ScanSources(fs, faults, set.sources, set.exclude_patterns).val
        ms == index.manifests
        latest == LatestEntries(ms, set_id)
    IN  \/ scan = <<>>
        \/ /\ inc
           /\ latest # {}
           /\ \E i \in latest : SpecDiff(Unwrap(bodies[ms[i].id]).files, scan) = <<>>

\* C3: a run that finds no file to back up returns success with
\* total_files = 0, total_bytes = 0 and an empty file list, ends with a
\* Completed event, and leaves the bodies, the index and the archives as
\* they were.
C3_NothingToDoIsSuccess ==
    [][(result'.op = "execute_backup"
            /\ FindsNothing(result'.set, result'.incremental))
        => /\ result'.ret.ok
           /\ result'.ret.val.total_files = 0
           /\ result'.ret.val.total_bytes = 0
           /\ result'.ret.val.files_backed_up = <<>>
           /\ events'[Len(events')].status = "Completed"
           /\ bodies' = bodies
           /\ index' = index
           /\ archives' = archives]_vars

\* C3 witness: an incremental run over a non-empty scan that backed up nothing.
C3_Witness ==
    /\ result.op = "execute_backup" /\ result.incremental /\ result.ret.ok
    /\ result.ret.val.total_files = 0
    /\ ScanSources(fs, faults, BackupSets[result.set].sources,
                   BackupSets[result.set].exclude_patterns).val # <<>>
    /\ [i \in DOMAIN events |-> events[i].status] = <<"Scanning", "Completed">>

IndexedIds == {index.manifests[i].id : i \in DOMAIN index.manifests}
StoredIds == {id \in Ids : IsSome(bodies[id])}
EntriesOf(ms, id) == {ms[i] : i \in {k \in DOMAIN ms : ms[k].id = id}}

\* C4: after any sequence of completed save_manifest, delete_manifest,
\* cleanup_expired and update_cloud_location calls on an initially empty
\* store, every index entry has a manifest body with the same id and every
\* manifest body has an index entry.
C4_IndexMatchesBodies ==
    /\ index.state # "corrupt"
    /\ IndexedIds = StoredIds
    /\ \A id \in StoredIds : Unwrap(bodies[id]).id = id

\* C4 witness: cleanup_expired has just deleted one manifest and another is
\* still stored and indexed.
C4_Witness ==
    /\ result.op = "cleanup_expired"
    /\ Len(result.ret.val) = 1
    /\ Len(index.manifests) = 1
    /\ StoredIds # {}

\* C5: after a successful delete_manifest(id), whatever the store held,
\* load_manifest_by_id(id) finds nothing and the index has no entry of id;
\* every other body and index entry is as before; deleting id again changes
\* nothing.
C5_DeleteRemovesOnlyThat ==
    [][(result'.op = "delete_manifest" /\ result'.ret.ok) =>
        LET id == result'.id
            after == Store(bodies', index')
        IN  /\ LoadManifestById(after, id) = Ok(None)
            /\ EntriesOf(index'.manifests, id) = {}
            /\ \A j \in Ids \ {id} : bodies'[j] = bodies[j]
            /\ index'.manifests = OtherEntries(index.manifests, id)
            /\ DeleteManifest(after, id, now').store = after
            /\ DeleteManifest(after, id, now').ret.ok]_vars

\* C5 witness: a stored manifest has been deleted while another one stays
\* stored and indexed.
C5_Witness ==
    /\ result.op = "delete_manifest" /\ result.ret.ok /\ result.existed
    /\ \E j \in StoredIds : j # result.id /\ j \in IndexedIds

\* C6: cleanup_expired deletes exactly the indexed manifests whose
\* retention_until is earlier than now, leaves every other manifest in body
\* and index, and returns exactly the ids it deleted.
C6_CleanupExactlyExpired ==
    [][result'.op = "cleanup_expired" =>
        LET ms == index.manifests
            expired == {id \in IndexedIds :
                          /\ IsSome(bodies[id])
                          /\ IsSome(Unwrap(bodies[id]).retention_until)
                          /\ Unwrap(Unwrap(bodies[id]).retention_until) < now}
        IN  /\ result'.ret.ok
            /\ Range(result'.ret.val) = expired
            /\ Len(result'.ret.val) = Cardinality(expired)
            /\ \A id \in Ids :
                  bodies'[id] = IF id \in expired THEN None ELSE bodies[id]
            /\ index'.manifests = SelectSeq(ms, LAMBDA e : e.id \notin expired)]_vars

\* C6 witness: cleanup_expired has deleted a manifest and kept one whose
\* retention_until has not passed.
C6_Witness ==
    /\ result.op = "cleanup_expired"
    /\ Len(result.ret.val) >= 1
    /\ \E id \in StoredIds :
          /\ IsSome(Unwrap(bodies[id]).retention_until)
          /\ Unwrap(Unwrap(bodies[id]).retention_until) >= now

\* What load_manifest returned is the set's latest manifest.
C7_ReturnsLatest ==
    result.op = "load_manifest" =>
        LET ms == index.manifests
            latest == LatestEntries(ms, result.set)
        IN  /\ result.ret.ok
            /\ latest = {} => result.ret.val = None
            /\ latest # {} =>
                  /\ IsSome(result.ret.val)
                  /\ Unwrap(result.ret.val).backup_set_id = result.set
                  /\ \E i \in latest :
                        /\ ms[i].id = Unwrap(result.ret.val).id
                        /\ bodies[ms[i].id] = result.ret.val

\* After delete_manifest(id), load_manifest of every set gives the latest of
\* the set's other manifests.
C7_AfterDelete ==
    result'.op = "delete_manifest" =>
        LET others == OtherEntries(index.manifests, result'.id) IN
        \A s \in SetIds :
            LET r == LoadManifest(Store(bodies', index'), s, now')
                next == LatestEntries(others, s)
            IN  /\ r.ok
                /\ next = {} => r.val = None
                /\ next # {} => \E i \in next : r.val = bodies[others[i].id]

\* C7: load_manifest(set_id) returns the manifest whose created_at is the
\* greatest among the index entries of that set, never a manifest of another
\* set; after the latest manifest of a set is deleted it returns the set's
\* next most recent manifest.
C7_LoadsLatestOfSet == [][C7_ReturnsLatest' /\ C7_AfterDelete]_vars

\* C7 witness: load_manifest returned a manifest that is not the set's last
\* index entry, an older manifest of the set being indexed after it.
C7_Witness ==
    /\ result.op = "load_manifest" /\ result.ret.ok /\ IsSome(result.ret.val)
    /\ LET ms == index.manifests IN
       \E i, j \in SetEntries(ms, result.set) :
          /\ ms[i].id = Unwrap(result.ret.val).id
          /\ i < j
          /\ ms[j].created_at < ms[i].created_at

\* The index entry load_manifest resolves for a set (max_by_key keeps the
\* last of the greatest).
Resolved(ms, set_id) ==
    CHOOSE i \in LatestEntries(ms, set_id) : \A j \in LatestEntries(ms, set_id) : j <= i

\* C8: when the index entry that load_manifest(set_id) resolves has no body
\* file, load_manifest returns no manifest and no error, and
\* get_changed_files returns every scanned file of that set.
C8_MissingBodyIsNoManifest ==
    (/\ result.op \in {"load_manifest", "get_changed_files"}
     /\ index.state = "ok"
     /\ LatestEntries(index.manifests, result.set) # {}
     /\ ~IsSome(bodies[index.manifests[Resolved(index.manifests, result.set)].id]))
    => /\ result.ret.ok
       /\ result.op = "load_manifest" => result.ret.val = None
       /\ result.op = "get_changed_files" => result.ret.val = result.scan

\* C8 witness: get_changed_files ran on a set whose latest index entry has
\* no body while an older body of the set lists a scanned file unchanged.
C8_Witness ==
    /\ result.op = "get_changed_files" /\ index.state = "ok"
    /\ result.scan # <<>>
    /\ LatestEntries(index.manifests, result.set) # {}
    /\ ~IsSome(bodies[index.manifests[Resolved(index.manifests, result.set)].id])
    /\ \E id \in StoredIds \cap IndexedIds :
          /\ Unwrap(bodies[id]).backup_set_id = result.set
          /\ \E e \in Range(Unwrap(bodies[id]).files), f \in Range(result.scan) :
                e.relative_path = f.relative_path /\ e.hash = f.hash

IndexUsers == {"load_manifest", "save_manifest", "delete_manifest", "cleanup_expired"}

C10_CloudLocationOnly ==
    [][result'.op = "update_cloud_location" =>
        LET id == result'.id IN
        /\ result'.ret.ok
        /\ IF IsSome(bodies[id])
           THEN /\ bodies' = [bodies EXCEPT ![id] =
                        Some([Unwrap(bodies[id]) EXCEPT
                                !.cloud_location = Some(result'.loc)])]
                /\ EntriesOf(index'.manifests, id) =
                      {[e EXCEPT !.is_uploaded = TRUE] : e \in EntriesOf(index.manifests, id)}
                /\ EntriesOf(index'.manifests, id) # {}
                /\ \A j \in Ids \ {id} :
                      EntriesOf(index'.manifests, j) = EntriesOf(index.manifests, j)
                /\ Len(index'.manifests) = Len(index.manifests)
           ELSE bodies' = bodies /\ index' = index]_vars

\* C10 witness: a location was attached to one manifest while another
\* manifest without a location is stored.
C10_Witness ==
    /\ result.op = "update_cloud_location" /\ result.ret.ok
    /\ IsSome(bodies[result.id])
    /\ Unwrap(bodies[result.id]).cloud_location = Some(result.loc)
    /\ \E j \in StoredIds : j # result.id /\ ~IsSome(Unwrap(bodies[j]).cloud_location)

\* No two index entries have the same manifest id.
UniqueIds(ms) == \A i, j \in DOMAIN ms : ms[i].id = ms[j].id => i = j

\* C11: save_manifest replaces any index entry of the same id by one fresh
\* summary, so after any sequence of save_manifest, update_cloud_location,
\* delete_manifest (and cleanup_expired) calls the index holds at most one
\* entry per manifest id; saving an id again (by save_manifest or by
\* update_cloud_location) leaves load_manifest of every other backup set
\* returning the same manifest.
C11_OneEntryPerId ==
    [][/\ UniqueIds(index'.manifests)
       /\ (result'.op = "save_manifest" /\ result'.ret.ok) =>
            /\ EntriesOf(index'.manifests, result'.id) = {Summary(result'.manifest)}
            /\ \A j \in Ids \ {result'.id} :
                  EntriesOf(index'.manifests, j) = EntriesOf(index.manifests, j)
       /\ (/\ result'.op \in {"save_manifest", "update_cloud_location"}
           /\ result'.ret.ok
           /\ IsSome(bodies[result'.id])) =>
            \A q \in SetIds \ {Unwrap(bodies[result'.id]).backup_set_id,
                               Unwrap(bodies'[result'.id]).backup_set_id} :
                LoadManifest(Store(bodies', index'), q, now').val =
                    LoadManifest(Store(bodies, index), q, now).val]_vars

\* C11 witness: a manifest was saved again under its id while an older
\* manifest of the other set is indexed; the index has one entry of the saved
\* id, the fresh one, at its end.
C11_Witness ==
    /\ result.op = "save_manifest" /\ result.ret.ok /\ result.existed
    /\ Len(index.manifests) = 2
    /\ index.manifests[2] = Summary(result.manifest)
    /\ index.manifests[1].backup_set_id # result.manifest.backup_set_id
    /\ index.manifests[1].created_at < result.manifest.created_at

\* The schedule calculate_next_run was last applied to, as it is now.
Calculated == Unwrap(scheduler[result.id])

\* C12 (as claimed): for every Daily schedule, every configured time of day
\* and every instant, also next to a daylight-saving transition,
\* calculate_next_run sets next_run to an instant strictly after the instant
\* of the calculation.
C12_DailyStrictlyAfterNow ==
    (result.op = "calculate_next_run" /\ Calculated.schedule_type = "Daily") =>
        /\ IsSome(Calculated.next_run)
        /\ Unwrap(Calculated.next_run) > clock

\* The wall-clock readings after now, within the 8 days the Weekly arm scans,
\* that fall on a configured weekday at the configured time.
WeeklyReadings(s, u, zone) ==
    {w \in (NaiveLocal(zone, u) + 1)..(NaiveLocal(zone, u) + 8 * 24) :
        /\ Weekday(DateOf(w)) \in Range(s.days_of_week)
        /\ HourOf(w) = TimeOfDay(s.time)}

\* The instants after u, within 9 days, whose local reading falls on a
\* configured weekday at the configured time.
WeeklyInstants(s, u, zone) ==
    {v \in (u + 1)..(u + 9 * 24) :
        /\ Weekday(DateOf(NaiveLocal(zone, v))) \in Range(s.days_of_week)
        /\ HourOf(NaiveLocal(zone, v)) = TimeOfDay(s.time)}

\* C13 (as claimed): for a Weekly schedule with a non-empty days_of_week,
\* calculate_next_run sets next_run to the earliest instant strictly after
\* now that falls on a configured weekday (0 = Sunday) at the configured time.
C13_Original ==
    (/\ result.op = "calculate_next_run"
     /\ Calculated.schedule_type = "Weekly"
     /\ Calculated.days_of_week # <<>>) =>
        Calculated.next_run = Some(SetMin(WeeklyInstants(Calculated, clock, tz)))

\* C13 amended: for a Weekly schedule with a non-empty days_of_week,
\* calculate_next_run takes the earliest local wall-clock time strictly after
\* the current wall-clock time that falls on a configured weekday (0 = Sunday)
\* at the configured time; when that wall-clock time exists, next_run is the
\* instant that reads so, the later one when two instants do (fall-back), and
\* it is strictly after now.  Days {1,3,5}, time 02:00, evaluated Tuesday
\* 10:00 local gives Wednesday 02:00 local.
C13_WeeklyNextWallClock ==
    (/\ result.op = "calculate_next_run"
     /\ Calculated.schedule_type = "Weekly"
     /\ Calculated.days_of_week # <<>>) =>
        LET w == SetMin(WeeklyReadings(Calculated, clock, tz))
            r == FromLocalDatetime(tz, w)
        IN  r # {} =>
                /\ Calculated.next_run = Some(SetMax(r))
                /\ SetMax(r) > clock
                /\ NaiveLocal(tz, SetMax(r)) = w

\* C13 witness: days {1,3,5}, time 02:00, Tuesday 2025-12-30 10:00 local in
\* New York: next_run is Wednesday 02:00 local (07:00 UTC).
C13_Witness ==
    /\ result.op = "calculate_next_run"
    /\ tz = "America/New_York"
    /\ NaiveLocal(tz, clock) = At(2025, 12, 30, 10)
    /\ Weekday(DateOf(NaiveLocal(tz, clock))) = 2
    /\ Calculated.schedule_type = "Weekly"
    /\ Calculated.days_of_week = <<1, 3, 5>>
    /\ Calculated.time = Some("02:00")
    /\ Calculated.next_run = Some(At(2025, 12, 31, 7))

\* Day d of the month after the month of the date, None when that month has
\* no day d.
DayOfFollowingMonth(date, d) ==
    IF Month(date) = 12 THEN Ymd(Year(date) + 1, 1, d)
    ELSE Ymd(Year(date), Month(date) + 1, d)

\* C14 (as claimed): for a Monthly schedule with day_of_month d (1 when not
\* set), for every d and every current date, next_run is day d of the current
\* month at the configured time when that date exists and is after now, and
\* otherwise day d of the following month at that time (January of the next
\* year after December).
C14_MonthlyDayOfMonth ==
    (result.op = "calculate_next_run" /\ Calculated.schedule_type = "Monthly") =>
        LET d == IF IsSome(Calculated.day_of_month)
                 THEN Unwrap(Calculated.day_of_month) ELSE 1
            time == TimeOfDay(Calculated.time)
            now_local == NaiveLocal(tz, clock)
            this_month == WithDay(DateOf(now_local), d)
            following == DayOfFollowingMonth(DateOf(now_local), d)
        IN  IF IsSome(this_month) /\ AndTime(Unwrap(this_month), time) > now_local
            THEN Calculated.next_run =
                    Some(ToInstant(tz, AndTime(Unwrap(this_month), time)))
            ELSE IsSome(following) =>
                    Calculated.next_run =
                        Some(ToInstant(tz, AndTime(Unwrap(following), time)))

\* C15 (as claimed): after calculate_next_run on a Weekly schedule whose
\* days_of_week is empty, next_run is unset, whatever it was before.
C15_EmptyWeeklyUnset ==
    (/\ result.op = "calculate_next_run"
     /\ Calculated.schedule_type = "Weekly"
     /\ Calculated.days_of_week = <<>>) =>
        Calculated.next_run = None

\* Due, as the specification words it: enabled, next_run set, and the
\* instant at or past next_run.
SpecDue(s, u) == s.enabled /\ s.next_run # None /\ u >= s.next_run[1]

\* The types that no clock fires.
ExternalTypes == {"Custom", "WeatherTriggered", "Manual"}

\* C16 (as claimed): a schedule of type Manual, WeatherTriggered or Custom is
\* never due for should_run_now or the schedule worker, after any sequence
\* of create_schedule, update_schedule (also one that changes the type),
\* load and run attempts.
C16_ExternalTypesNeverDue ==
    \A i \in DOMAIN schedules :
        schedules[i].schedule_type \in ExternalTypes =>
            /\ ~ShouldRunNow(schedules[i], clock)
            /\ \A k \in DOMAIN due : due[k][1] # schedules[i].id

\* The schedules of the map that are due.
DueIds == {id \in Present(scheduler) : SpecDue(Unwrap(scheduler[id]), clock)}
Count(seq, x) == Cardinality({i \in DOMAIN seq : seq[i] = x})

\* C17: should_run_now() is true exactly when the schedule is enabled,
\* next_run is set and now >= next_run; get_pending_backups returns the
\* backup_set_id of exactly the schedules for which should_run_now() is true,
\* one entry per such schedule.
C17_DueExactly ==
    /\ result.op = "should_run_now" =>
          (result.ret <=> SpecDue(Unwrap(scheduler[result.id]), clock))
    /\ result.op = "get_pending_backups" =>
          /\ Len(result.ret) = Cardinality(DueIds)
          /\ \A q \in SetIds :
                Count(result.ret, q) =
                    Cardinality({id \in DueIds : Unwrap(scheduler[id]).backup_set_id = q})

\* C17 witness: of two schedules whose next_run has passed, one enabled and
\* one disabled, get_pending_backups returned the backup set of the enabled
\* one only.
C17_Witness ==
    /\ result.op = "get_pending_backups"
    /\ Present(scheduler) = {1, 2}
    /\ \A id \in {1, 2} : /\ IsSome(Unwrap(scheduler[id]).next_run)
                          /\ Unwrap(Unwrap(scheduler[id]).next_run) < clock
    /\ Unwrap(scheduler[1]).enabled /\ ~Unwrap(scheduler[2]).enabled
    /\ Unwrap(scheduler[2]).backup_set_id = "s2"
    /\ result.ret = <<"s1">>

\* C18 (as claimed): mark_completed(schedule_id) sets last_run to now and
\* recomputes next_run, and right afterwards the schedule is not due, for
\* every Daily, Weekly and Monthly schedule; on an unknown id it changes
\* nothing.
C18_NotDueAfterMarkCompleted ==
    [][result'.op = "mark_completed" =>
        IF IsSome(scheduler[result'.id])
        THEN LET before == Unwrap(scheduler[result'.id])
                 after == Unwrap(scheduler'[result'.id])
             IN  /\ after.last_run = Some(clock)
                 /\ after.next_run =
                        CalculateNextRun(before, clock, tz).next_run
                 /\ before.schedule_type \in {"Daily", "Weekly", "Monthly"} =>
                        ~ShouldRunNow(after, clock')
        ELSE scheduler' = scheduler]_vars

\* C19 (as claimed): after the schedule worker has attempted the run of a due
\* schedule, the schedule's last_run is now and its next_run is recomputed,
\* whether the attempt succeeded or failed.
C19_StampedAfterAnyAttempt ==
    [][result'.op = "worker_attempt" =>
        LET pos == FindSchedule(schedules, result'.id) IN
        pos # 0 =>
            /\ schedules'[pos].last_run = Some(clock)
            /\ schedules'[pos].next_run =
                  CalculateNextRun(schedules[pos], clock, tz).next_run]_vars

\* C20 (as claimed): next_run is recomputed only after a run attempt: an
\* enabled schedule that is due stays due until the worker has attempted its
\* run, also across load and update_schedule (as long as it exists and is
\* enabled).
C20_DueUntilAttempted ==
    [][\A i \in DOMAIN schedules :
        LET s == schedules[i]
            pos == FindSchedule(schedules', s.id)
        IN  (/\ s.enabled /\ ShouldRunNow(s, clock)
             /\ ~(result'.op = "worker_attempt" /\ result'.id = s.id)
             /\ pos # 0
             /\ schedules'[pos].enabled)
            => ShouldRunNow(schedules'[pos], clock')]_vars

\* The schedules of the map that a batch of alerts triggers: enabled, with an
\* enabled trigger whose alert_type is in the batch.
TriggeredIds(map, alerts) ==
    {id \in Present(map) :
        /\ Unwrap(map[id]).enabled
        /\ \E i \in DOMAIN Unwrap(map[id]).weather_triggers :
              /\ Unwrap(map[id]).weather_triggers[i].enabled
              /\ Unwrap(map[id]).weather_triggers[i].alert_type \in Range(alerts)}

\* C21: check_weather_triggers(alerts) returns the backup_set_id of a
\* schedule exactly when the schedule is enabled and has an enabled trigger
\* whose alert_type is in alerts, once per such schedule; a disabled schedule
\* or trigger contributes nothing, an empty batch gives an empty result, and
\* the call changes no schedule.
C21_WeatherTriggersExactly ==
    [][result'.op = "check_weather_triggers" =>
        /\ scheduler' = scheduler
        /\ \A set_id \in SetIds :
              Count(result'.ret, set_id) =
                 Cardinality({id \in TriggeredIds(scheduler, result'.alerts) :
                                 Unwrap(scheduler[id]).backup_set_id = set_id})
        /\ Len(result'.ret) = Cardinality(TriggeredIds(scheduler, result'.alerts))
        /\ result'.alerts = <<>> => result'.ret = <<>>]_vars

\* C21 witness: a batch of two alerts met an enabled schedule with two
\* enabled matching triggers and a disabled schedule of another set with a
\* matching trigger; only the first set is returned, once.
C21_Witness ==
    /\ result.op = "check_weather_triggers"
    /\ result.alerts = <<"Tornado", "FlashFlood">>
    /\ Present(scheduler) = {1, 2}
    /\ Unwrap(scheduler[1]).enabled
    /\ Unwrap(scheduler[1]).weather_triggers =
          <<WeatherTrigger("Tornado", TRUE), WeatherTrigger("FlashFlood", TRUE)>>
    /\ ~Unwrap(scheduler[2]).enabled
    /\ Unwrap(scheduler[2]).backup_set_id = "s2"
    /\ Unwrap(scheduler[2]).weather_triggers = <<WeatherTrigger("Tornado", TRUE)>>
    /\ result.ret = <<"s1">>

\* The schedule types and configurations for which calculate_next_run
\* computes a wall-clock time.
TimeBased(s) ==
    \/ s.schedule_type \in {"Daily", "Monthly"}
    \/ s.schedule_type = "Weekly" /\ s.days_of_week # <<>>

\* The instants at which the zone's clocks show what they show at instant u.
SameReading(zone, u) == FromLocalDatetime(zone, NaiveLocal(zone, u))

\* C22: when the local wall-clock time computed for the next run maps to two
\* instants (daylight-saving fall-back), calculate_next_run sets next_run to
\* the later of the two: next_run is never the earlier of two instants with
\* the same wall-clock reading.
C22_AmbiguousTakesLater ==
    (result.op = "calculate_next_run" /\ TimeBased(Calculated)) =>
        /\ IsSome(Calculated.next_run)
        /\ \A u \in SameReading(tz, Unwrap(Calculated.next_run)) :
              u <= Unwrap(Calculated.next_run)

\* C22 witness: a Daily run at 02:00 computed in Europe/Berlin on the eve of
\* 2025-10-26, when 02:00 is shown twice; next_run is the second 02:00.
C22_Witness ==
    /\ result.op = "calculate_next_run"
    /\ Calculated.schedule_type = "Daily"
    /\ tz = "Europe/Berlin"
    /\ Calculated.next_run = Some(At(2025, 10, 26, 1))
    /\ SameReading(tz, At(2025, 10, 26, 1)) = {At(2025, 10, 26, 0), At(2025, 10, 26, 1)}

\* The Compressing events of the latest run, in the order of emission.
CompressingEvents == SelectSeq(events, LAMBDA e : e.status = "Compressing")

\* C23 (as claimed): create_archive emits one Compressing event per file,
\* after that file has been written, in the order of the file list: the event
\* for the k-th file names that file and reports processed_files = k and
\* processed_bytes = the bytes of the first k files.
C23_EventAfterEachFile ==
    (result.op = "execute_backup" /\ result.ret.ok
        /\ result.ret.val.total_files > 0) =>
        LET files == result.ret.val.files_backed_up IN
        /\ Len(CompressingEvents) = Len(files)
        /\ \A k \in DOMAIN files :
              /\ CompressingEvents[k].current_file = files[k].relative_path
              /\ CompressingEvents[k].processed_files = k
              /\ CompressingEvents[k].processed_bytes =
                    SumSeq([i \in 1..k |-> files[i].size])

\* C24: split_into_chunks on a container whose size is <= chunk_size returns
\* a one-element list holding the original path and creates no part file,
\* on every call: the files on disk are as they were.
C24_SmallContainerUntouched ==
    [][(result'.op = "split_into_chunks" /\ result'.path \in DOMAIN disk
            /\ Len(disk[result'.path]) <= chunk_size)
        => /\ result'.ret = Ok(<<result'.path>>)
           /\ disk' = disk]_vars

\* C24 witness: a container of exactly chunk_size bytes was handed to the
\* splitter; it is returned as the only part and is the only file on disk.
C24_Witness ==
    /\ result.op = "split_into_chunks"
    /\ result.ret = Ok(<<result.path>>)
    /\ DOMAIN disk = {result.path}
    /\ Len(disk[result.path]) = chunk_size

\* The bytes of a list of files, one after the other.
RECURSIVE Concatenation(_, _)
Concatenation(d, paths) ==
    IF paths = <<>> THEN <<>> ELSE d[Head(paths)] \o Concatenation(d, Tail(paths))

\* C25: split_into_chunks on a container larger than chunk_size returns
\* ceil(size / chunk_size) parts numbered consecutively from 000 in container
\* order; every part but the last has exactly chunk_size bytes, the last has
\* between 1 and chunk_size bytes, the concatenation of the parts equals the
\* container, and the container is neither deleted nor modified.
C25_PartsOfLargeContainer ==
    [][(result'.op = "split_into_chunks" /\ result'.path \in DOMAIN disk
            /\ Len(disk[result'.path]) > chunk_size)
        => LET bytes == disk[result'.path]
               n == (Len(bytes) + chunk_size - 1) \div chunk_size
               parts == result'.ret.val
           IN  /\ result'.ret.ok
               /\ Len(parts) = n
               /\ \A k \in 1..n :
                     /\ parts[k] = [result'.path EXCEPT
                                       !.ext = <<"p", "a", "r", "t", "0", "0", DigitChars[k]>>]
                     /\ parts[k] \in DOMAIN disk'
                     /\ k < n => Len(disk'[parts[k]]) = chunk_size
                     /\ k = n => Len(disk'[parts[k]]) \in 1..chunk_size
               /\ Concatenation(disk', parts) = bytes
               /\ result'.path \in DOMAIN disk'
               /\ disk'[result'.path] = bytes]_vars

\* C25 witness: a container of five bytes was split with chunk_size 2 into
\* three parts of 2, 2 and 1 bytes, and is still on disk.
C25_Witness ==
    /\ result.op = "split_into_chunks"
    /\ result.ret.ok
    /\ chunk_size = 2
    /\ Len(result.ret.val) = 3
    /\ [k \in 1..3 |-> Len(disk[result.ret.val[k]])] = <<2, 2, 1>>
    /\ result.path \in DOMAIN disk
    /\ Len(disk[result.path]) = 5

\* A pattern of the list occurs in the full path of the file or in its bare
\* file name.
Matches(root, name, patterns) ==
    \E i \in DOMAIN patterns :
        \/ Contains(Chars[root] \o <<"/">> \o Chars[name], Chars[patterns[i]])
        \/ Contains(Chars[name], Chars[patterns[i]])

\* The files of a root: the names under which the tree holds a file.
FilesOf(root) == {f \in Files : f[1] = root /\ fs[f] # 0}

\* C26 (as claimed): for every file tree and every list of exclusion
\* patterns, scan_directory returns no entry whose full path or bare filename
\* contains one of the patterns as a substring, and returns every
\* non-directory file of the tree that contains none of them.
C26_ScanExcludesExactly ==
    (result.op = "scan_directory" /\ result.ret.ok) =>
        /\ \A e \in Range(result.ret.val) :
              ~Matches(e.path[1], e.path[2], result.patterns)
        /\ \A f \in FilesOf(result.root) :
              ~Matches(f[1], f[2], result.patterns)
                 => \E e \in Range(result.ret.val) : e.path = f

\* An I/O error is met while the root is scanned: the walk fails at a file,
\* or the metadata or the content of a file that is not excluded cannot be
\* read.
MeetsIoError(root, patterns) ==
    \E f \in FilesOf(root) :
        \/ faults[f] = "walk"
        \/ faults[f] \in {"metadata", "hash"} /\ ~Matches(f[1], f[2], patterns)

\* C27 (as claimed): any I/O error on a file or directory met during a scan
\* (walk, metadata or hashing) aborts the whole scan with an error and no
\* partial entry list; execute_backup then fails without creating an archive
\* and without saving a manifest or changing the index.
C27_ScanFailsFast ==
    [][/\ (result'.op = "scan_directory"
              /\ MeetsIoError(result'.root, result'.patterns))
          => ~result'.ret.ok
       /\ (result'.op = "execute_backup"
              /\ \E i \in DOMAIN BackupSets[result'.set].sources :
                    MeetsIoError(BackupSets[result'.set].sources[i],
                                 BackupSets[result'.set].exclude_patterns))
          => /\ ~result'.ret.ok
             /\ archives' = archives
             /\ bodies' = bodies
             /\ index' = index]_vars

\* C28: in every manifest saved by execute_backup the relative_path values
\* of the file entries are pairwise distinct, also for a backup set with
\* several source roots.
C28_RelativePathsDistinct ==
    \A id \in Ids :
        IsSome(bodies[id]) =>
            LET files == Unwrap(bodies[id]).files IN
            \A i, j \in DOMAIN files :
                i # j => files[i].relative_path # files[j].relative_path

\* C28 witness: a run of the two-root set s1 saved a manifest with files of
\* both roots while both roots hold a file named "a".
C28_Witness ==
    /\ result.op = "execute_backup" /\ result.set = "s1" /\ result.ret.ok
    /\ result.ret.val.total_files > 0
    /\ fs[<<"r1", "a">>] # 0 /\ fs[<<"r2", "a">>] # 0
    /\ IsSome(bodies[result.ret.val.id])
    /\ {f.path[1] : f \in Range(Unwrap(bodies[result.ret.val.id]).files)} = {"r1", "r2"}

\* The places of a step in the list of steps a run has called.
StepAt(steps, name) == {i \in DOMAIN steps : steps[i] = name}

\* C29 (as claimed): a run performs its steps in the order scan, diff,
\* archive, split, persist manifest: the manifest is saved only after the
\* archive has been built and split, and a run that fails before the manifest
\* is saved leaves the bodies and the index as they were.
C29_StepsInOrder ==
    [][result'.op = "execute_backup" =>
        LET steps == result'.steps IN
        /\ \A i \in StepAt(steps, "save_manifest") :
              /\ \E j \in StepAt(steps, "create_archive") : j < i
              /\ \E j \in StepAt(steps, "split_into_chunks") :
                    /\ j < i
                    /\ \E k \in StepAt(steps, "create_archive") : k < j
        /\ \A i \in StepAt(steps, "create_archive") :
              /\ \E j \in StepAt(steps, "scan_directory") : j < i
              /\ result'.incremental =>
                    \E j \in StepAt(steps, "get_changed_files") : j < i
        /\ (~result'.ret.ok /\ StepAt(steps, "save_manifest") = {})
              => bodies' = bodies /\ index' = index]_vars

\* What a writing method does to the map when it runs alone.
WriteEffect(map, task, u, zone) ==
    CASE task.op \in {"add_schedule", "update_schedule"} ->
            SchedulerInsert(map, Unwrap(task.schedule))
      [] task.op = "remove_schedule" -> SchedulerRemove(map, task.id)
      [] task.op = "mark_completed" -> MarkCompleted(map, task.id, u, zone)

\* A mark_completed has assigned last_run and not yet recomputed next_run.
HalfCompleted == \E w \in Tasks : tasks[w].pc = "stamped"

\* C30: the operations on the Scheduler's schedule map are linearizable: a
\* write guard excludes every other guard, no get_schedule, get_pending_backups
\* or check_weather_triggers reads the map between the last_run assignment and
\* the next_run recomputation of a mark_completed, and when a writing method
\* returns the map is what the method alone makes of the map it found.
C30_Linearizable ==
    [][/\ IsSome(lock'.writer) => lock'.readers = {}
       /\ \A t \in Tasks :
            /\ (tasks[t].op \in ReadOps /\ tasks[t].pc = "locked" /\ tasks'[t].pc = "done")
                  => ~HalfCompleted
            /\ (tasks[t].op \in WriteOps /\ tasks[t].pc = "done" /\ tasks'[t].pc = "idle")
                  => scheduler = WriteEffect(Unwrap(tasks[t].before), tasks[t], clock, tz)
      ]_vars

\* Two readers hold the lock at once, one of them having read the schedule
\* as a finished mark_completed left it, while a mark_completed awaits the lock.
C30_Witness ==
    \E r1, r2, w \in Tasks :
        /\ r1 # r2
        /\ {r1, r2} \subseteq lock.readers
        /\ tasks[r1].op = "get_schedule" /\ tasks[r1].pc = "done"
        /\ IsSome(tasks[r1].ret)
        /\ Unwrap(tasks[r1].ret).schedule_type = "Daily"
        /\ Unwrap(tasks[r1].ret).last_run = Some(clock)
        /\ Unwrap(tasks[r1].ret).next_run # Some(clock)
        /\ tasks[w].op = "mark_completed" /\ tasks[w].pc = "waiting"

\* What extracting a finished container yields: its entries, each a name
\* and the bytes stored under it.
Extracted(archive) == {[name |-> e.name, content |-> e.content] : e \in Range(archive.entries)}

\* C31 (as claimed): extracting the container built by create_archive from a
\* file list yields, for every file of the list, an entry stored under its
\* relative path with the file's bytes, and no other entry.
C31_ExtractRoundTrip ==
    [][(result'.op = "create_archive" /\ result'.ret.ok) =>
        Extracted(Unwrap(archives'[nextId]))
            = {[name |-> f.relative_path, content |-> ReadFile(fs, f.path)] :
                    f \in Range(result'.files)}]_vars

\* The manifests of a set that list the file at a path, and the hash under
\* which the latest of them (the run that last archived the file) lists it.
ArchivedBy(set_id, path) ==
    {id \in Ids : /\ IsSome(bodies[id])
                  /\ Unwrap(bodies[id]).backup_set_id = set_id
                  /\ \E f \in Range(Unwrap(bodies[id]).files) : f.path = path}
LastArchivedHash(set_id, path) ==
    LET id == SetMax(ArchivedBy(set_id, path))
        f == CHOOSE g \in Range(Unwrap(bodies[id]).files) : g.path = path
    IN  f.hash

\* The files an incremental run selects for its archive: the files a run
\* has backed up, or what get_changed_files returns for the set's scan.
SelectedFiles(r) ==
    IF r.op = "execute_backup" /\ r.ret.ok THEN Range(r.ret.val.files_backed_up)
    ELSE IF r.op = "get_changed_files" /\ r.ret.ok THEN Range(r.ret.val)
    ELSE {}

\* C32 (as claimed): in any sequence of incremental runs of one backup set,
\* a file whose fingerprint has not changed since the run that last archived
\* it is not selected for the archive of a later run.
C32_UnchangedNotArchivedAgain ==
    [][\A f \in SelectedFiles(result') :
          ArchivedBy(result'.set, f.path) # {}
             => LastArchivedHash(result'.set, f.path) # f.hash]_vars

\* The index entries whose manifest body is missing.
Dangling(b, i) == {k \in DOMAIN i.manifests : ~IsSome(b[i.manifests[k].id])}

\* C33 (as claimed): if the process stops between the two writes of
\* save_manifest or of delete_manifest (the body file is written or removed,
\* the index is as it was), the store found on restart has no index entry
\* whose manifest body is missing, provided it had none before.
C33_NoDanglingAfterStop ==
    [][(result'.op = "crash" /\ index' = index /\ Dangling(bodies, index) = {})
          => Dangling(bodies', index') = {}]_vars

\* C34 (as claimed): whenever a run has saved a manifest, the archive of
\* that run still exists after the run's post-processing, at the local
\* destination or uploaded to the cloud.
C34_ArchiveOutlivesRun ==
    [][(/\ result'.op = "execute_backup_with_trigger"
        /\ result'.ret.ok
        /\ IsSome(bodies'[nextId])
        /\ ~IsSome(bodies[nextId]))
          => LET archive == Unwrap(archives'[nextId])
             IN  archive.on_disk \/ archive.uploaded]_vars

\* No schedule id occurs twice in a list of runs.
NoRunTwice(runs) == \A i, j \in DOMAIN runs : runs[i] = runs[j] => i = j

\* C35: at most one execute_backup is in progress at any time, whether called
\* by run_backup commands or by the schedule worker, and the worker never has
\* two runs of the same schedule in flight.
C35_OneExecuteBackup ==
    /\ Cardinality({p \in Procs : Executing(p)}) <= 1
    /\ NoRunTwice(procs[Worker].inflight)

\* One task is inside execute_backup for a scheduled run while a run_backup
\* command awaits the engine mutex.
C35_Witness ==
    /\ Executing(Worker)
    /\ procs[Worker].inflight # <<>>
    /\ \E p \in Commands :
        /\ procs[p].cmd[1] = "run_backup"
        /\ AtStep(p, "lock")
        /\ Target(p) = "backup_engine"

\* The tasks of D each await a mutex held by a task of D.
Deadlocked(D) ==
    /\ D # {}
    /\ \A p \in D :
        /\ AtStep(p, "lock")
        /\ \E q \in D : mutexes[Target(p)] = Some(q)

\* C36: no interleaving of the commands and the schedule worker deadlocks on
\* the app-state, backup-engine, drive-client and weather-service mutexes.
C36_NoDeadlock == \A D \in SUBSET Procs : ~Deadlocked(D)

\* The events of one run, given whether the run succeeded: Scanning first;
\* after success Completed last and nowhere else; after failure no Completed;
\* the processed counters never decrease and never exceed the totals.
EventsInOrder(evs, ok) ==
    /\ evs # <<>>
    /\ evs[1].status = "Scanning"
    /\ ok => evs[Len(evs)].status = "Completed"
    /\ \A i \in DOMAIN evs :
        /\ evs[i].status = "Completed" => ok /\ i = Len(evs)
        /\ evs[i].processed_files <= evs[i].total_files
        /\ evs[i].processed_bytes <= evs[i].total_bytes
        /\ \A j \in DOMAIN evs :
            i < j => /\ evs[i].processed_files <= evs[j].processed_files
                     /\ evs[i].processed_bytes <= evs[j].processed_bytes

\* C37: in every execute_backup run the first progress event is Scanning; on
\* success the last event is the only Completed one, after every Compressing
\* event; processed_files and processed_bytes never decrease and never exceed
\* total_files and total_bytes; on failure no Completed event is emitted.
C37_EventsInOrder ==
    result.op = "execute_backup" => EventsInOrder(events, result.ret.ok)

\* An index summary and a manifest body say the same.
Agrees(e, m) ==
    /\ e.backup_set_id = m.backup_set_id
    /\ e.created_at = m.created_at
    /\ e.total_size = m.total_size
    /\ e.compressed_size = m.compressed_size
    /\ e.file_count = Len(m.files)
    /\ e.is_uploaded <=> IsSome(m.cloud_location)

\* C38: after any sequence of save_manifest, update_cloud_location and
\* delete_manifest calls every index summary agrees with its manifest body:
\* same backup_set_id, created_at, total_size and compressed_size, file_count
\* the number of file entries, is_uploaded exactly when the body has a
\* cloud_location.
C38_SummaryAgreesWithBody ==
    \A i \in DOMAIN index.manifests :
        LET e == index.manifests[i] IN
        /\ IsSome(bodies[e.id])
        /\ Agrees(e, Unwrap(bodies[e.id]))

\* A stored manifest was deleted and the index is left with a manifest that
\* was saved with files and then given a cloud location.
C38_Witness ==
    /\ result.op = "delete_manifest" /\ result.ret.ok
    /\ result.existed
    /\ \E i \in DOMAIN index.manifests :
        /\ index.manifests[i].is_uploaded
        /\ index.manifests[i].file_count > 0
        /\ index.manifests[i].id # result.id

====
